---------------------------- MODULE AgentProofs ----------------------------
(***************************************************************************)
(* Proofs about the components that MCAgent runs, for every value of the   *)
(* constants.  Each component has an inductive invariant of its own, that  *)
(* it begins with and that each of its steps keeps; a step of another      *)
(* component leaves its variables alone.                                   *)
(***************************************************************************)
EXTENDS MCAgent, FiniteSetTheorems, WellFoundedInduction, TLAPS

-----------------------------------------------------------------------------
(* Reviews.                                                                *)

\* What the forge and the command say.
Review == [state : {"open", "merged", "closed"}, head : Nat, ready : BOOLEAN, pushes : Nat]

RCommandType ==
    [at : {"none", "inspect", "status", "merge", "landed", "reconcile", "refused", "reported"},
     review : {0} \cup Pulls, head : Nat]

RTypes ==
    /\ rReviews \in [Pulls -> Review] /\ rMerged \in [Pulls -> Nat] /\ rCommand \in RCommandType
    /\ rAdopted \subseteq Pulls /\ rClosed \subseteq Pulls
    /\ rTask \in [at : {"queued", "ordinary", "closing", "completed"}, left : SUBSET Pulls]
    /\ rRequest.named \subseteq Pulls

\* A merge is asked for what was found mergeable; it is only taken to be done if it was.
RCommandInv ==
    /\ rCommand.at \in {"inspect", "status", "merge", "landed"} => rCommand.review \in Pulls
    /\ R!At("merge") => <<rCommand.review, rCommand.head>> \in rVetted
    /\ rCommand.at \in {"landed", "reconcile", "reported"} /\ rCommand.review > 0
         => R!Landed(rCommand.review)

\* What is left to close is not the review to keep.
RTaskInv == rRequest.keep \notin rTask.left

ReviewsInv ==
    /\ RTypes /\ R!MergedAsInspected /\ (\A r \in rAdopted : R!Landed(r)) /\ RCommandInv
    /\ RTaskInv /\ R!KeptReviewStays

\* A review that landed stays so.
LEMMA LandedStays ==
    ASSUME RTypes, R!Next
    PROVE  \A r \in Pulls : R!Landed(r) => R!Landed(r)'
<1> DEFINE Kept == \A r \in Pulls : R!Landed(r) => R!Landed(r)'
<1>1. \A r \in Pulls : R!Landed(r) <=> rReviews[r].state = "merged"
  BY DEF R!Landed
<1>2. ASSUME NEW r \in Pulls, NEW state, 
             rReviews' = [rReviews EXCEPT ![r].state = state, ![r].pushes = 0], R!Open(r)
      PROVE  Kept
  BY <1>2 DEF RTypes, R!Landed, R!Open
<1>3. ASSUME NEW r \in Pulls, NEW ready \in BOOLEAN, R!Push(r, ready) PROVE Kept
  BY <1>3 DEF R!Push, RTypes, R!Landed
<1>4. ASSUME NEW r \in Pulls, NEW state \in {"merged", "closed"}, R!SettleOutside(r, state)
      PROVE  Kept
  BY <1>2, <1>4 DEF R!SettleOutside
<1>5. ASSUME NEW r \in Pulls, R!Close(r) PROVE Kept
  BY <1>2, <1>5 DEF R!Close, R!Landed
<1>6. CASE R!Merge
  <2>1. CASE R!Merging
    BY <2>1 DEF R!Merging, RTypes, R!Landed
  <2>2. CASE UNCHANGED rReviews
    BY <2>2 DEF R!Landed
  <2> QED
    BY <1>6, <2>1, <2>2 DEF R!Merge, R!Forge
<1>7. CASE UNCHANGED rReviews
  BY <1>7 DEF R!Landed
<1> QED
  BY <1>3, <1>4, <1>5, <1>6, <1>7
     DEF R!Next, R!MainThread, R!Inspect, R!RequireMergeable, R!LookAgain, R!RequestFails,
         R!Reconcile, R!Reply, R!Inherit, R!Begin, R!Complete, R!Restart, R!Command, R!Forge

\* After this step the review has landed.
Lands(r) == rReviews'[r].state = "merged"

LEMMA ReviewsKeep == ASSUME ReviewsInv, R!Next PROVE ReviewsInv'
<1>0. \A r \in Pulls : r \in Nat /\ r > 0
  BY PullsAssumption
<1>1. /\ RTypes /\ RCommandInv /\ RTaskInv /\ R!MergedAsInspected /\ R!KeptReviewStays
      /\ \A r \in rAdopted : R!Landed(r)
  BY DEF ReviewsInv
<1>2. \A r \in Pulls : R!Landed(r) => R!Landed(r)' /\ Lands(r)
  BY <1>1, LandedStays DEF R!Landed, Lands
<1>3. /\ rReviews \in [Pulls -> Review] /\ rMerged \in [Pulls -> Nat] /\ rCommand \in RCommandType
      /\ rAdopted \subseteq Pulls
  BY <1>1 DEF RTypes
<1> DEFINE KeepsCommand ==
              /\ rCommand' \in RCommandType /\ RCommandInv'
              /\ rAdopted' \subseteq Pulls /\ \A r \in rAdopted' : R!Landed(r)'
           KeepsForge == /\ rReviews' \in [Pulls -> Review] /\ rMerged' \in [Pulls -> Nat]
                         /\ R!MergedAsInspected'
           KeepsTask == /\ rTask' \in [at : {"queued", "ordinary", "closing", "completed"},
                                       left : SUBSET Pulls]
                        /\ rClosed' \subseteq Pulls /\ rRequest'.named \subseteq Pulls
                        /\ RTaskInv' /\ R!KeptReviewStays'
<1> SUFFICES KeepsCommand /\ KeepsForge /\ KeepsTask
  BY DEF ReviewsInv, RTypes
<1> HIDE DEF KeepsCommand, KeepsForge, KeepsTask
<1>4. ASSUME UNCHANGED R!Maintaining PROVE KeepsTask
  BY <1>1, <1>4 DEF R!Maintaining, KeepsTask, RTypes, RTaskInv, R!KeptReviewStays
<1>5. ASSUME UNCHANGED R!Forge, rVetted \subseteq rVetted' PROVE KeepsForge
  BY <1>1, <1>3, <1>5 DEF R!Forge, KeepsForge, R!MergedAsInspected
<1>6. ASSUME UNCHANGED <<rCommand, rAdopted>>, rVetted \subseteq rVetted' PROVE KeepsCommand
  BY <1>1, <1>2, <1>3, <1>6 DEF KeepsCommand, RCommandInv, R!At, RCommandType
\* Where a command goes.
<1>7. ASSUME NEW at, NEW r, NEW h, rCommand' = [at |-> at, review |-> r, head |-> h],
             rCommand' \in RCommandType,
             at \in {"inspect", "status", "merge", "landed"} => r \in Pulls,
             at = "merge" => <<r, h>> \in rVetted',
             at \in {"landed", "reconcile", "reported"} /\ r > 0 => Lands(r),
             rAdopted' = rAdopted
      PROVE  KeepsCommand
  BY <1>1, <1>2, <1>3, <1>7 DEF KeepsCommand, RCommandInv, R!At, R!Landed, Lands
<1> DEFINE c == rCommand
<1>8. ASSUME NEW at \in {"none", "inspect", "status", "merge", "landed", "reconcile", "refused",
                         "reported"}, R!Go(at)
      PROVE  /\ rCommand' = [at |-> at, review |-> c.review, head |-> c.head]
             /\ rCommand' \in RCommandType
  BY <1>3, <1>8 DEF R!Go, RCommandType
<1>8a. ASSUME NEW at \in {"status", "landed", "reconcile", "refused"}, R!Go(at), rAdopted' = rAdopted,
              c.review \in Pulls, at \in {"landed", "reconcile"} => Lands(c.review)
       PROVE  KeepsCommand
  <2>1. rCommand' = [at |-> at, review |-> c.review, head |-> c.head] /\ rCommand' \in RCommandType
    BY <1>8, <1>8a
  <2> QED
    BY <1>7, <1>8a,   <2>1
<1>8b. ASSUME UNCHANGED R!Forge, UNCHANGED R!Maintaining, rVetted' = rVetted
       PROVE  KeepsForge /\ KeepsTask
  BY <1>4, <1>5, <1>8b
<1>9. CASE R!Inspect
  <2>1. /\ c.at = "inspect" /\ c.review \in Pulls
        /\ \/ R!Landed(c.review) /\ R!Go("reconcile")
           \/ R!Go("status")
        /\ UNCHANGED R!Forge /\ UNCHANGED R!Maintaining /\ rVetted' = rVetted
        /\ rAdopted' = rAdopted
    BY <1>1, <1>9 DEF R!Inspect, R!At, RCommandInv
  <2> QED
    BY <1>2, <1>8a, <1>8b, <2>1, Zenon
<1>10. CASE R!RequireMergeable
  <2>1. /\ c.at = "status" /\ c.review \in Pulls
        /\ UNCHANGED R!Forge /\ UNCHANGED R!Maintaining /\ rAdopted' = rAdopted
    BY <1>1, <1>10 DEF R!RequireMergeable, R!At, RCommandInv
  <2>2. CASE R!Go("refused") /\ UNCHANGED rVetted
    BY <1>8a, <1>8b, <2>1, <2>2, Zenon
  <2>3. CASE /\ rCommand' = [rCommand EXCEPT !.at = "merge", !.head = rReviews[c.review].head]
             /\ rVetted' = rVetted \cup {<<c.review, rReviews[c.review].head>>}
    <3>1. PICK h \in Nat : h = rReviews[c.review].head
      BY <1>3, <2>1 DEF Review
    <3>2. rCommand' = [at |-> "merge", review |-> c.review, head |-> h] /\ rCommand' \in RCommandType
      BY <1>3, <2>1, <2>3, <3>1 DEF RCommandType
    <3>3. <<c.review, h>> \in rVetted' /\ rVetted \subseteq rVetted'
      BY <2>3, <3>1
    <3> QED
      BY <1>4, <1>5, <1>7, <2>1, <3>2, <3>3, Zenon
  <2> QED
    BY <1>10, <2>2, <2>3 DEF R!RequireMergeable
<1>11. CASE R!Merge
  <2>1. /\ c.at = "merge" /\ c.review \in Pulls /\ <<c.review, c.head>> \in rVetted
        /\ UNCHANGED R!Maintaining /\ rVetted' = rVetted /\ rAdopted' = rAdopted
    BY <1>1, <1>11 DEF R!Merge, R!At, RCommandInv
  <2>2. CASE R!Go("refused") /\ UNCHANGED R!Forge
    BY <1>8a, <1>8b, <2>1, <2>2, Zenon
  <2>3. CASE R!Accepted /\ R!Merging /\ (R!Go("landed") \/ R!Go("refused"))
    <3>0. rReviews[c.review].head = c.head /\ c.head \in Nat
      BY <1>3, <2>3 DEF R!Accepted, RCommandType
    <3>1. rReviews' \in [Pulls -> Review] /\ Lands(c.review)
      BY <1>3, <2>1, <2>3 DEF R!Merging, Lands, Review
    <3>1a. rMerged' \in [Pulls -> Nat] /\ rMerged' = [rMerged EXCEPT ![c.review] = c.head]
      BY <1>3, <2>1, <2>3, <3>0 DEF R!Merging
    <3>2. KeepsForge
      BY <1>1, <1>3, <2>1, <3>1, <3>1a DEF KeepsForge, R!MergedAsInspected
    <3> QED
      BY <1>4, <1>8a, <2>1, <2>3, <3>1, <3>2, Zenon
  <2> QED
    BY <1>11, <2>2, <2>3 DEF R!Merge
<1>12. CASE R!LookAgain
  <2>1. /\ c.at = "landed" /\ c.review \in Pulls /\ R!Go("reconcile")
        /\ UNCHANGED R!Forge /\ UNCHANGED R!Maintaining /\ rVetted' = rVetted
        /\ rAdopted' = rAdopted
    BY <1>1, <1>12 DEF R!LookAgain, R!At, RCommandInv
  <2>2. R!Landed(c.review)
    BY <1>0, <1>1, <2>1 DEF RCommandInv
  <2> QED
    BY <1>2, <1>8a, <1>8b, <2>1, <2>2, Zenon
<1>13. CASE R!RequestFails
  <2>1. /\ R!Go("refused") /\ c.review \in Pulls
        /\ UNCHANGED R!Forge /\ UNCHANGED R!Maintaining /\ rVetted' = rVetted
        /\ rAdopted' = rAdopted
    BY <1>1, <1>13 DEF R!RequestFails, RCommandInv
  <2> QED
    BY <1>8a, <1>8b, <2>1, Zenon
<1>14. CASE R!Reconcile
  <2>1. /\ c.at = "reconcile" /\ R!Go("reported") /\ UNCHANGED <<R!Forge, rVetted, R!Maintaining>>
        /\ \A r \in rAdopted' : r \in rAdopted \/ (r \in Pulls /\ R!Landed(r))
    BY <1>14 DEF R!Reconcile, R!At, R!HasLanded
  <2>2. /\ rCommand' = [at |-> "reported", review |-> c.review, head |-> c.head]
        /\ rCommand' \in RCommandType
    BY <1>8, <2>1, Zenon
  <2>3. c.review \in {0} \cup Pulls
    BY <1>3 DEF RCommandType
  <2>4. c.review > 0 => Lands(c.review)
    <3>1. CASE c.review \in Pulls
      BY <1>0, <1>1, <1>2, <2>1, <3>1 DEF RCommandInv
    <3>2. CASE c.review = 0
      BY <3>2
    <3> QED
      BY <2>3, <3>1, <3>2
  <2>5. RCommandInv'
    BY <2>2, <2>4 DEF RCommandInv, R!At, R!Landed, Lands
  <2>6. KeepsCommand
    BY <1>1, <1>2, <1>3, <2>1, <2>2, <2>5 DEF KeepsCommand
  <2> QED
    BY <1>4, <1>5, <2>1, <2>6, Zenon
<1>15. CASE R!Reply \/ R!Inherit \/ \E r \in Pulls : R!Command(r)
  <2>1. UNCHANGED <<R!Forge, rVetted, rAdopted, R!Maintaining>>
    BY <1>15 DEF R!Reply, R!Inherit, R!Command
  <2>2. \/ rCommand' = [at |-> "none", review |-> 0, head |-> 0]
        \/ rCommand' = [at |-> "reconcile", review |-> 0, head |-> 0]
        \/ \E r \in Pulls : rCommand' = [at |-> "inspect", review |-> r, head |-> 0]
    BY <1>15 DEF R!Reply, R!Inherit, R!Command, R!None
  <2>3. rCommand' \in RCommandType /\ RCommandInv'
    BY <2>2 DEF RCommandType, RCommandInv, R!At
  <2>4. KeepsCommand
    BY <1>1, <1>2, <1>3, <2>1, <2>3 DEF KeepsCommand
  <2> QED
    BY <1>4, <1>5, <2>1, <2>4, Zenon
\* People on the forge.
<1>16. ASSUME NEW r \in Pulls, NEW ready \in BOOLEAN, R!Push(r, ready)
       PROVE  KeepsCommand /\ KeepsForge /\ KeepsTask
  <2>1. /\ rReviews' = [rReviews EXCEPT ![r].head = @ + 1, ![r].ready = ready, ![r].pushes = @ - 1]
        /\ rReviews[r].pushes > 0
        /\ UNCHANGED <<rMerged, R!Commanding, R!Maintaining>>
    BY <1>16 DEF R!Push
  <2>2. rReviews' \in [Pulls -> Review]
    BY <1>3, <2>1 DEF Review
  <2>3. KeepsForge
    BY <1>1, <1>3, <2>1, <2>2 DEF KeepsForge, R!MergedAsInspected, R!Commanding
  <2> QED
    BY <1>4, <1>6, <2>1, <2>3 DEF R!Commanding
<1>17. ASSUME NEW r \in Pulls, NEW state \in {"merged", "closed"}, R!SettleOutside(r, state)
       PROVE  KeepsCommand /\ KeepsForge /\ KeepsTask
  <2>1. /\ rReviews' = [rReviews EXCEPT ![r].state = state, ![r].pushes = 0]
        /\ rMerged' = rMerged \/ rMerged' = [rMerged EXCEPT ![r] = rReviews[r].head]
        /\ rVetted' = rVetted \cup {<<r, rReviews[r].head>>}
        /\ UNCHANGED <<rCommand, rAdopted, R!Maintaining>>
    BY <1>17, SMTT(30) DEF R!SettleOutside
  <2>2. rReviews[r] \in Review /\ rReviews[r].head \in Nat
    BY <1>3 DEF Review
  <2>3. [rReviews[r] EXCEPT !.state = state, !.pushes = 0] \in Review
    BY <2>2 DEF Review
  <2>4. rReviews' \in [Pulls -> Review]
    BY <1>3, <2>1, <2>3
  <2>5. KeepsForge
    BY <1>1, <1>3, <2>1, <2>2, <2>4 DEF KeepsForge, R!MergedAsInspected
  <2> QED
    BY <1>4, <1>6, <2>1, <2>5
\* Maintenance.
<1>18. CASE R!Begin \/ R!Complete
  <2>1. /\ UNCHANGED <<R!Forge, R!Commanding, rRequest, rClosed>>
        /\ \/ rTask' = [at |-> "ordinary", left |-> {}]
           \/ rTask' = [at |-> "closing", left |-> R!Selected]
           \/ rTask' = [rTask EXCEPT !.at = "completed"]
    BY <1>18 DEF R!Begin, R!Complete
  <2>2. rRequest.keep \notin R!Selected /\ R!Selected \subseteq Pulls
    BY <1>1 DEF R!Selected, RTypes
  <2>3. KeepsTask
    BY <1>1, <2>1, <2>2 DEF KeepsTask, RTypes, RTaskInv, R!KeptReviewStays
  <2> QED
    BY <1>5, <1>6, <2>1, <2>3 DEF R!Commanding
<1>19. ASSUME NEW r \in Pulls, R!Close(r) PROVE KeepsCommand /\ KeepsForge /\ KeepsTask
  <2>1. /\ UNCHANGED <<rMerged, R!Commanding, rRequest>>
        /\ r \in rTask.left /\ rTask' = [rTask EXCEPT !.left = @ \ {r}]
        /\ rClosed' = rClosed \/ rClosed' = rClosed \cup {r}
    BY <1>19 DEF R!Close
  <2>2. rReviews' \in [Pulls -> Review]
    BY <1>3, <1>19 DEF R!Close, Review
  <2>3. KeepsForge
    BY <1>1, <1>3, <2>1, <2>2 DEF KeepsForge, R!MergedAsInspected, R!Commanding
  <2>4. KeepsTask
    BY <1>1, <2>1 DEF KeepsTask, RTypes, RTaskInv, R!KeptReviewStays
  <2> QED
    BY <1>6, <2>1, <2>3, <2>4 DEF R!Commanding
<1>20. CASE R!Restart
  <2>1. /\ UNCHANGED <<R!Forge, rVetted, rAdopted, rRequest, rClosed>>
        /\ rTask' = rTask \/ rTask' = [at |-> "queued", left |-> {}]
    BY <1>20 DEF R!Restart
  <2>2. \/ rCommand' = [at |-> "none", review |-> 0, head |-> 0]
        \/ /\ c.review # 0 /\ rCommand' = [at |-> "inspect", review |-> c.review, head |-> 0]
    BY <1>20 DEF R!Restart, R!None
  <2>3. rCommand' \in RCommandType /\ RCommandInv'
    BY <1>3, <2>2 DEF RCommandType, RCommandInv, R!At
  <2>4. KeepsCommand
    BY <1>1, <1>2, <1>3, <2>1, <2>3 DEF KeepsCommand
  <2>5. KeepsTask
    BY <1>1, <2>1 DEF KeepsTask, RTypes, RTaskInv, R!KeptReviewStays
  <2> QED
    BY <1>5, <2>1, <2>4, <2>5
<1> QED
  BY <1>9, <1>10, <1>11, <1>12, <1>13, <1>14, <1>15, <1>16, <1>17, <1>18, <1>19, <1>20
     DEF R!Next, R!MainThread

\* What is merged on the forge is a head that was inspected and found mergeable, whatever is
\* pushed in between; adopted work and reported merges have landed, over lost answers and
\* commands that come again; and the review to keep is never closed (/pr merge,
\* reconcile_lineage_adoptions, run_forge_maintenance).
THEOREM ReviewsStayFaithful == MCSpec => []ReviewsAreFaithful
<1>1. MCInit => ReviewsInv
  <2> SUFFICES ASSUME R!Init PROVE ReviewsInv
    BY DEF MCInit
  <2>1. /\ rReviews = [r \in Pulls |->
                          [state |-> "open", head |-> 1, ready |-> TRUE, pushes |-> MaxPushes]]
        /\ rMerged = [r \in Pulls |-> 0] /\ rAdopted = {} /\ rClosed = {}
        /\ rCommand = [at |-> "none", review |-> 0, head |-> 0]
        /\ rTask = [at |-> "queued", left |-> {}] /\ rRequest.named \subseteq Pulls
    BY DEF R!Init, R!None
  <2>2. RTypes
    BY <2>1, PullsAssumption DEF RTypes, Review, RCommandType
  <2> QED
    BY <2>1, <2>2 DEF ReviewsInv, RCommandInv, RTaskInv, R!MergedAsInspected, R!KeptReviewStays,
                      R!Landed, R!At
<1>2. ReviewsInv /\ [MCNext]_allVars => ReviewsInv'
  <2>1. CASE R!Next /\ ReviewsInv
    BY <2>1, ReviewsKeep
  <2>2. CASE UNCHANGED reviews /\ ReviewsInv
    BY <2>2 DEF reviews, ReviewsInv, RTypes, RCommandInv, RTaskInv, R!MergedAsInspected,
                R!KeptReviewStays, R!Landed, R!At
  <2> QED
    BY <2>1, <2>2 DEF MCNext, allVars, self, InReviews, InLineage, InEvolution, InCuration,
       InLearning, InMemory, InMigration, InPrivateState, InEnvironments, InQuotaWarnings,
       InOutbound, InSlackUpload, InSlackIntake
<1>3. ReviewsInv => ReviewsAreFaithful
  BY DEF ReviewsInv, ReviewsAreFaithful, RTypes, RCommandInv, R!TypeOK, R!AdoptedWorkHasLanded,
         Review, R!At
<1> QED
  BY <1>1, <1>2, <1>3, PTL DEF MCSpec

-----------------------------------------------------------------------------
(* Learning.                                                               *)

LearnType ==
    [at : {"none", "body", "metadata", "instructions", "assess", "create"}, revision : Nat,
     declared : 0..2, version : 0..2, metadata : Contents \cup {"empty"},
     instructions : Contents \cup {"empty"}]

TaskStates == {"queued", "running", "record", "indexed", "final"}

NTypes ==
    /\ nPublished \in Seq(N!Revisions) /\ nPublished # <<>>
    /\ nLearn \in LearnType /\ nLearn.revision \in 0..Len(nPublished)
    /\ nTasks \in [LearningTasks -> TaskStates] /\ nIndex \in Seq(LearningTasks)
    /\ nArtifacts \subseteq LearningTasks /\ nLock \in LearningTasks \cup {0}
    /\ \A s \in DOMAIN nCandidates : nCandidates[s] \in {"candidate", "approved", "removed"}

\* What of the snapshot has been read is what the revision says.
SnapshotInv ==
    LET at == nPublished[nLearn.revision] IN
    /\ nLearn.at # "none" => nLearn.revision \in DOMAIN nPublished
    /\ nLearn.at \in {"metadata", "instructions", "assess", "create"}
         => at.exposure = "public" /\ nLearn.declared = at.declared
    /\ nLearn.at \in {"instructions", "assess", "create"}
         => nLearn.version = at.version /\ nLearn.metadata = at.metadata
    /\ nLearn.at \in {"assess", "create"}
         => nLearn.instructions = at.instructions /\ N!VersionsAgree

CandidatesInv ==
    N!CandidatesWerePublished /\ \A s \in DOMAIN nCandidates : s.revision \in DOMAIN nPublished

\* A task has its line from when it is written, and one task writes once.
IndexInv ==
    /\ \A i \in DOMAIN nIndex : nTasks[nIndex[i]] \in {"indexed", "final"}
    /\ \A t \in LearningTasks : nTasks[t] = "indexed" => \E i \in DOMAIN nIndex : nIndex[i] = t
    /\ N!ArtifactsAreIndexedOnce

LearningInv == NTypes /\ SnapshotInv /\ CandidatesInv /\ IndexInv

\* The steps of /learn and of the source leave the tasks alone, and the tasks leave those alone.
LEMMA LearningKeeps == ASSUME LearningInv, N!Next PROVE LearningInv'
<1>1. NTypes /\ SnapshotInv /\ CandidatesInv /\ IndexInv
  BY DEF LearningInv
<1> DEFINE Grows == nPublished' \in Seq(N!Revisions) /\ nPublished' # <<>>
           Reading == /\ nLearn' \in LearnType /\ nLearn'.revision \in 0..Len(nPublished')
                      /\ SnapshotInv'
           Learned == /\ \A s \in DOMAIN nCandidates' :
                            nCandidates'[s] \in {"candidate", "approved", "removed"}
                      /\ CandidatesInv'
           Recorded == /\ nTasks' \in [LearningTasks -> TaskStates] /\ nIndex' \in Seq(LearningTasks)
                       /\ nArtifacts' \subseteq LearningTasks /\ nLock' \in LearningTasks \cup {0}
                       /\ IndexInv'
<1> SUFFICES Grows /\ Reading /\ Learned /\ Recorded
  BY DEF LearningInv, NTypes
<1>2. /\ nPublished \in Seq(N!Revisions) /\ nPublished # <<>>
      /\ nLearn \in LearnType /\ nLearn.revision \in 0..Len(nPublished)
      /\ nTasks \in [LearningTasks -> TaskStates] /\ nIndex \in Seq(LearningTasks)
      /\ nArtifacts \subseteq LearningTasks /\ nLock \in LearningTasks \cup {0}
  BY <1>1 DEF NTypes
<1> HIDE DEF Reading, Learned, Recorded
<1>3. ASSUME UNCHANGED N!Recording PROVE Recorded
  BY <1>1, <1>2, <1>3 DEF N!Recording, Recorded, IndexInv, N!ArtifactsAreIndexedOnce
<1>4. ASSUME UNCHANGED nCandidates, UNCHANGED nPublished PROVE Learned
  BY <1>1, <1>4 DEF Learned, NTypes, CandidatesInv, N!CandidatesWerePublished
<1>5. ASSUME UNCHANGED <<nPublished, nLearn>> PROVE Reading
  BY <1>1, <1>2, <1>5 DEF Reading, SnapshotInv, N!VersionsAgree
<1>6. ASSUME UNCHANGED nPublished, nLearn' = N!Idle PROVE Reading
  <2>1. /\ nLearn' \in LearnType /\ nLearn'.at = "none" /\ nLearn'.revision = 0
    BY <1>6 DEF N!Idle, LearnType
  <2>2. 0 \in 0..Len(nPublished')
    BY <1>2, <1>6
  <2> QED
    BY <2>1, <2>2 DEF Reading, SnapshotInv
\* The source.
<1>7. CASE N!Push
  <2>1. PICK r \in N!Revisions : nPublished' = Append(nPublished, r)
    BY <1>7 DEF N!Push
  <2>2. UNCHANGED <<nLearn, nCandidates, N!Recording>>
    BY <1>7 DEF N!Push, N!Learned
  <2>3. /\ nPublished' \in Seq(N!Revisions) /\ nPublished' # <<>>
        /\ DOMAIN nPublished \subseteq DOMAIN nPublished'
        /\ Len(nPublished) <= Len(nPublished') /\ Len(nPublished') \in Nat
        /\ \A i \in DOMAIN nPublished : nPublished'[i] = nPublished[i]
    BY <1>2, <2>1
  <2>4. Reading
    <3>1. SnapshotInv'
      BY <1>1, <2>2, <2>3 DEF SnapshotInv, N!VersionsAgree
    <3> QED
      BY <1>2, <2>2, <2>3, <3>1 DEF Reading
  <2>5. Learned
    BY <1>1, <2>2, <2>3 DEF Learned, NTypes, CandidatesInv, N!CandidatesWerePublished
  <2> QED
    BY <1>3, <2>2, <2>3, <2>4, <2>5
\* The command.
<1>8. CASE N!Resolve
  <2>1. /\ nLearn' = [N!Idle EXCEPT !.at = "body", !.revision = Len(nPublished)]
        /\ UNCHANGED nPublished /\ UNCHANGED nCandidates /\ UNCHANGED N!Recording
    BY <1>8 DEF N!Resolve, N!Newest
  <2>2. Len(nPublished) \in Nat /\ DOMAIN nPublished = 1..Len(nPublished) /\ nPublished # <<>>
    BY <1>1, <1>2 DEF NTypes
  <2>3. nLearn' \in LearnType /\ nLearn'.at = "body" /\ nLearn'.revision = Len(nPublished)
    <3>1. PICK n \in Nat : n = Len(nPublished)
      BY <2>2
    <3>2. nLearn' = [at |-> "body", revision |-> n, declared |-> 0, version |-> 0,
                     metadata |-> "empty", instructions |-> "empty"]
      BY <2>1, <3>1 DEF N!Idle
    <3> QED
      BY <3>1, <3>2 DEF LearnType
  <2>4. Reading
    BY <2>1, <2>2, <2>3 DEF Reading, SnapshotInv
  <2> QED
    BY <1>2, <1>3, <1>4, <2>1, <2>4
<1>9. CASE N!ReadBody \/ N!ReadMetadata \/ N!ReadInstructions \/ N!ReadFails
           \/ \E applicable \in BOOLEAN : N!Assess(applicable)
  <2>1. UNCHANGED nPublished /\ UNCHANGED nCandidates /\ UNCHANGED N!Recording
    BY <1>9 DEF N!ReadBody, N!ReadMetadata, N!ReadInstructions, N!ReadFails, N!Assess
  <2> DEFINE rev == nPublished[nLearn.revision]
  <2>2. /\ nLearn.at \in {"body", "metadata", "instructions", "assess"}
        /\ nLearn.revision \in DOMAIN nPublished /\ rev \in N!Revisions
    BY <1>1, <1>2, <1>9 DEF N!ReadBody, N!ReadMetadata, N!ReadInstructions, N!ReadFails,
       N!Assess, N!At, SnapshotInv
  <2>3. Reading
    <3>1. CASE nLearn' = N!Idle
      BY <1>6, <2>1, <3>1
    <3>2. CASE /\ nLearn.at = "body" /\ rev.exposure = "public"
               /\ nLearn' = [nLearn EXCEPT !.at = "metadata", !.declared = rev.declared]
      <4>1. /\ nLearn' \in LearnType /\ nLearn'.at = "metadata" /\ nLearn'.declared = rev.declared
            /\ nLearn'.revision = nLearn.revision
        BY <1>2, <2>2, <3>2 DEF LearnType, N!Revisions
      <4> QED
        BY <1>2, <2>1, <2>2, <3>2, <4>1 DEF Reading, SnapshotInv
    <3>3. CASE /\ nLearn.at = "metadata"
               /\ nLearn' = [nLearn EXCEPT !.at = "instructions", !.version = rev.version,
                                           !.metadata = rev.metadata]
      <4>1. /\ nLearn' \in LearnType /\ nLearn'.at = "instructions"
            /\ nLearn'.version = rev.version /\ nLearn'.metadata = rev.metadata
            /\ nLearn'.declared = nLearn.declared /\ nLearn'.revision = nLearn.revision
        BY <1>2, <2>2, <3>3 DEF LearnType, N!Revisions
      <4> QED
        BY <1>1, <1>2, <2>1, <2>2, <3>3, <4>1 DEF Reading, SnapshotInv
    <3>4. CASE /\ nLearn.at = "instructions" /\ N!VersionsAgree
               /\ nLearn' = [nLearn EXCEPT !.at = "assess", !.instructions = rev.instructions]
      <4>1. /\ nLearn' \in LearnType /\ nLearn'.at = "assess"
            /\ nLearn'.instructions = rev.instructions
            /\ nLearn'.version = nLearn.version /\ nLearn'.metadata = nLearn.metadata
            /\ nLearn'.declared = nLearn.declared /\ nLearn'.revision = nLearn.revision
        BY <1>2, <2>2, <3>4 DEF LearnType, N!Revisions
      <4> QED
        BY <1>1, <1>2, <2>1, <2>2, <3>4, <4>1 DEF Reading, SnapshotInv, N!VersionsAgree
    <3>5. CASE nLearn.at = "assess" /\ nLearn' = [nLearn EXCEPT !.at = "create"]
      <4>1. /\ nLearn' \in LearnType /\ nLearn'.at = "create"
            /\ nLearn'.instructions = nLearn.instructions
            /\ nLearn'.version = nLearn.version /\ nLearn'.metadata = nLearn.metadata
            /\ nLearn'.declared = nLearn.declared /\ nLearn'.revision = nLearn.revision
        BY <1>2, <2>2, <3>5 DEF LearnType, N!Revisions
      <4> QED
        BY <1>1, <1>2, <2>1, <2>2, <3>5, <4>1 DEF Reading, SnapshotInv, N!VersionsAgree
    <3> QED
      BY <1>9, <3>1, <3>2, <3>3, <3>4, <3>5
         DEF N!ReadBody, N!ReadMetadata, N!ReadInstructions, N!ReadFails, N!Assess, N!At,
             N!Refuse, N!ReadAt
  <2> QED
    BY <1>2, <1>3, <1>4, <2>1, <2>3
<1>10. CASE N!Create
  <2>1. /\ nLearn.at = "create" /\ nLearn' = N!Idle
        /\ UNCHANGED nPublished /\ UNCHANGED N!Recording
    BY <1>10 DEF N!Create, N!At, N!Refuse
  <2> DEFINE new == N!Snapshot
  <2>2. /\ new.revision = nLearn.revision /\ new.metadata = nLearn.metadata
        /\ new.instructions = nLearn.instructions
    BY DEF N!Snapshot
  <2>3. /\ \A s \in DOMAIN nCandidates' : s \in DOMAIN nCandidates \/ s = new
        /\ \A s \in DOMAIN nCandidates' :
              \/ nCandidates'[s] = "candidate"
              \/ s \in DOMAIN nCandidates /\ nCandidates'[s] = nCandidates[s]
    <3>1. CASE new \in DOMAIN nCandidates
      BY <1>1, <1>10, <3>1 DEF N!Create
    <3>2. CASE new \notin DOMAIN nCandidates
      <4>1. nCandidates' = [s \in DOMAIN nCandidates \cup {new} |->
                              IF s = new THEN "candidate" ELSE nCandidates[s]]
        BY <1>10, <3>2 DEF N!Create
      <4>2. DOMAIN nCandidates' = DOMAIN nCandidates \cup {new}
        BY <4>1
      <4> QED
        BY <4>1, <4>2
    <3> QED
      BY <3>1, <3>2
  <2>4. LET at == nPublished[new.revision] IN
        /\ new.revision \in DOMAIN nPublished
        /\ new.metadata = at.metadata /\ new.instructions = at.instructions
        /\ at.exposure = "public" /\ (at.declared = at.version \/ 0 \in {at.declared, at.version})
    BY <1>1, <2>1, <2>2 DEF SnapshotInv, N!VersionsAgree
  <2> HIDE DEF new
  <2>5. Learned
    BY <1>1, <2>1, <2>3, <2>4 DEF Learned, NTypes, CandidatesInv, N!CandidatesWerePublished
  <2> QED
    BY <1>2, <1>3, <1>6, <2>1, <2>5
<1>11. ASSUME NEW s \in DOMAIN nCandidates, NEW status \in {"approved", "removed"},
              N!Decide(s, status)
       PROVE  Grows /\ Reading /\ Learned /\ Recorded
  <2>1. /\ nCandidates' = [nCandidates EXCEPT ![s] = status]
        /\ UNCHANGED nPublished /\ UNCHANGED nLearn /\ UNCHANGED N!Recording
    BY <1>11 DEF N!Decide
  <2>2. DOMAIN nCandidates' = DOMAIN nCandidates
    BY <2>1
  <2>3. Learned
    BY <1>1, <2>1, <2>2 DEF Learned, NTypes, CandidatesInv, N!CandidatesWerePublished
  <2> QED
    BY <1>2, <1>3, <1>5, <2>1, <2>3
\* The tasks.
<1>12. ASSUME UNCHANGED nIndex, UNCHANGED nArtifacts, nLock' \in LearningTasks \cup {0},
              nTasks' \in [LearningTasks -> TaskStates],
              \A t \in LearningTasks :
                 \/ nTasks'[t] = nTasks[t]
                 \/ nTasks[t] \in {"queued", "running", "record"} /\ nTasks'[t] # "indexed"
                 \/ nTasks[t] = "indexed" /\ nTasks'[t] = "final"
       PROVE  Recorded
  <2>1. \A i \in DOMAIN nIndex : nIndex[i] \in LearningTasks
    BY <1>2
  <2>2. IndexInv'
    BY <1>1, <1>12, <2>1 DEF IndexInv, N!ArtifactsAreIndexedOnce
  <2> QED
    BY <1>2, <1>12, <2>2 DEF Recorded
<1>13. ASSUME NEW t \in LearningTasks,
              N!Run(t) \/ N!Finalize(t) \/ N!Acquire(t) \/ N!AppendIndex(t) \/ N!WriteArtifact(t)
              \/ N!WriteFails(t)
       PROVE  Grows /\ Reading /\ Learned /\ Recorded
  <2>1. UNCHANGED nPublished /\ UNCHANGED nLearn /\ UNCHANGED nCandidates
    BY <1>13 DEF N!Run, N!Finalize, N!Acquire, N!AppendIndex, N!WriteArtifact, N!WriteFails,
                 N!Learned
  <2>2. ASSUME N!Run(t) \/ N!Finalize(t) \/ N!Acquire(t) \/ N!WriteFails(t) PROVE Recorded
    <3>1. /\ \/ nTasks' = nTasks
             \/ \E a \in {"running", "record", "final"} : nTasks' = [nTasks EXCEPT ![t] = a]
          /\ UNCHANGED nIndex /\ UNCHANGED nArtifacts /\ nLock' \in LearningTasks \cup {0}
          /\ nTasks'[t] = "final" \/ nTasks'[t] = nTasks[t] \/ nTasks[t] \in {"queued", "running"}
      BY <1>2, <2>2 DEF N!Run, N!Finalize, N!Acquire, N!WriteFails, TaskStates
    <3>2. \A u \in LearningTasks :
             \/ nTasks'[u] = nTasks[u]
             \/ nTasks[u] \in {"queued", "running", "record"} /\ nTasks'[u] # "indexed"
             \/ nTasks[u] = "indexed" /\ nTasks'[u] = "final"
      BY <1>2, <3>1 DEF TaskStates
    <3>3. nTasks' \in [LearningTasks -> TaskStates]
      BY <1>2, <3>1 DEF TaskStates
    <3> QED
      BY <1>2, <1>12, <3>1, <3>2, <3>3
  <2>3. ASSUME N!AppendIndex(t) PROVE Recorded
    <3>1. /\ nTasks[t] = "record" /\ nTasks' = [nTasks EXCEPT ![t] = "indexed"]
          /\ nIndex' = Append(nIndex, t) /\ UNCHANGED nArtifacts
          /\ nLock' \in LearningTasks \cup {0}
      BY <1>2, <2>3 DEF N!AppendIndex
    <3>2. /\ nIndex' \in Seq(LearningTasks) /\ DOMAIN nIndex' = 1..Len(nIndex) + 1
          /\ DOMAIN nIndex = 1..Len(nIndex) /\ Len(nIndex) \in Nat
          /\ \A i \in 1..Len(nIndex) : nIndex'[i] = nIndex[i]
          /\ nIndex'[Len(nIndex) + 1] = t
      BY <1>2, <3>1
    <3>3. \A i \in 1..Len(nIndex) : nIndex[i] \in LearningTasks /\ nIndex[i] # t
      BY <1>1, <1>2, <3>1 DEF IndexInv
    <3>4. nTasks' \in [LearningTasks -> TaskStates]
      BY <1>2, <3>1 DEF TaskStates
    <3>5. N!ArtifactsAreIndexedOnce'
      <4>1. \A i, j \in DOMAIN nIndex' : nIndex'[i] = nIndex'[j] => i = j
        BY <1>1, <3>2, <3>3 DEF IndexInv, N!ArtifactsAreIndexedOnce
      <4>2. nArtifacts \subseteq {nIndex'[i] : i \in DOMAIN nIndex'}
        BY <1>1, <3>2 DEF IndexInv, N!ArtifactsAreIndexedOnce
      <4> QED
        BY <3>1, <4>1, <4>2 DEF N!ArtifactsAreIndexedOnce
    <3>6. \A i \in DOMAIN nIndex' : nTasks'[nIndex'[i]] \in {"indexed", "final"}
      BY <1>1, <1>2, <3>1, <3>2, <3>3 DEF IndexInv
    <3>7. \A u \in LearningTasks : nTasks'[u] = "indexed" => \E i \in DOMAIN nIndex' : nIndex'[i] = u
      <4> SUFFICES ASSUME NEW u \in LearningTasks, nTasks'[u] = "indexed"
                   PROVE  \E i \in DOMAIN nIndex' : nIndex'[i] = u
        OBVIOUS
      <4>1. CASE u = t
        <5>1. Len(nIndex) + 1 \in DOMAIN nIndex'
          BY <3>2
        <5> QED
          BY <3>2, <4>1, <5>1
      <4>2. CASE u # t
        BY <1>1, <1>2, <3>1, <3>2, <4>2 DEF IndexInv
      <4> QED
        BY <4>1, <4>2
    <3>8. IndexInv'
      BY <3>5, <3>6, <3>7 DEF IndexInv
    <3> QED
      BY <1>2, <3>1, <3>2, <3>4, <3>8 DEF Recorded
  <2>4. ASSUME N!WriteArtifact(t) PROVE Recorded
    <3>1. /\ nTasks[t] = "indexed" /\ nTasks' = [nTasks EXCEPT ![t] = "final"]
          /\ UNCHANGED nIndex /\ nArtifacts' = nArtifacts \cup {t} /\ nLock' \in LearningTasks \cup {0}
      BY <2>4 DEF N!WriteArtifact
    <3>2. nTasks' \in [LearningTasks -> TaskStates]
      BY <1>2, <3>1 DEF TaskStates
    <3>3. /\ \A i \in DOMAIN nIndex : nIndex[i] \in LearningTasks
          /\ nIndex' \in Seq(LearningTasks) /\ nArtifacts' \subseteq LearningTasks
      BY <1>2, <3>1
    <3>4. N!ArtifactsAreIndexedOnce'
      BY <1>1, <3>1 DEF IndexInv, N!ArtifactsAreIndexedOnce
    <3>5. IndexInv'
      BY <1>1, <1>2, <3>1, <3>3, <3>4 DEF IndexInv
    <3> QED
      BY <3>1, <3>2, <3>3, <3>5 DEF Recorded
  <2> QED
    BY <1>2, <1>4, <1>5, <1>13, <2>1, <2>2, <2>3, <2>4
<1>14. CASE N!Restart
  <2>1. /\ nLearn' = N!Idle /\ nLock' = 0
        /\ nTasks' = [t \in LearningTasks |-> N!Recovered(nTasks[t])]
        /\ UNCHANGED nPublished /\ UNCHANGED nCandidates
        /\ UNCHANGED nIndex /\ UNCHANGED nArtifacts
    BY <1>14 DEF N!Restart
  <2>2. \A a \in TaskStates : /\ N!Recovered(a) \in TaskStates /\ N!Recovered(a) # "indexed"
                              /\ a \in {"indexed", "final"} => N!Recovered(a) = "final"
    BY DEF N!Recovered, TaskStates
  <2>3. Recorded
    BY <1>2, <1>12, <2>1, <2>2 DEF TaskStates
  <2> QED
    BY <1>2, <1>4, <1>6, <2>1, <2>3
<1> QED
  BY <1>7, <1>8, <1>9, <1>10, <1>11, <1>13, <1>14 DEF N!Next
\* The decisions that are made stay so.
LEMMA LearningDecides ==
    ASSUME N!Next
    PROVE  \A s \in DOMAIN nCandidates :
              nCandidates[s] # "candidate" => nCandidates'[s] = nCandidates[s]
<1>1. CASE N!Create
  BY <1>1 DEF N!Create
<1>2. CASE \E s \in DOMAIN nCandidates, status \in {"approved", "removed"} : N!Decide(s, status)
  BY <1>2 DEF N!Decide
<1>3. CASE UNCHANGED nCandidates
  BY <1>3
<1> QED
  BY <1>1, <1>2, <1>3
     DEF N!Next, N!Push, N!Resolve, N!ReadBody, N!ReadMetadata, N!ReadInstructions, N!ReadFails,
         N!Assess, N!Restart, N!Run, N!Finalize, N!Acquire, N!AppendIndex, N!WriteArtifact,
         N!WriteFails, N!Learned

LEMMA LearningBegins == ASSUME N!Init PROVE LearningInv
<1>1. /\ nPublished = <<N!First>> /\ nLearn = N!Idle /\ nCandidates = <<>> /\ nIndex = <<>>
      /\ nTasks = [t \in LearningTasks |-> "queued"] /\ nArtifacts = {} /\ nLock = 0
  BY DEF N!Init
<1>2. N!First \in N!Revisions
  BY ContentsAssumption DEF N!First, N!Revisions
<1>3. nPublished \in Seq(N!Revisions) /\ Len(nPublished) = 1
  BY <1>1, <1>2
<1>4. nLearn \in LearnType /\ nLearn.at = "none" /\ nLearn.revision = 0
  BY <1>1 DEF N!Idle, LearnType
<1>5. DOMAIN nCandidates = {} /\ DOMAIN nIndex = {}
  BY <1>1
<1>6. NTypes
  BY <1>1, <1>3, <1>4, <1>5 DEF NTypes, TaskStates
<1>7. IndexInv
  BY <1>1, <1>5 DEF IndexInv, N!ArtifactsAreIndexedOnce
<1> QED
  BY <1>4, <1>5, <1>6, <1>7 DEF LearningInv, SnapshotInv, CandidatesInv, N!CandidatesWerePublished

-----------------------------------------------------------------------------
\* A set of numbers has a least one.
LEMMA LeastNumber ==
    ASSUME NEW S \in SUBSET Nat, S # {}
    PROVE  \E n \in S : \A m \in S : n <= m
<1> DEFINE less == OpToRel(<, Nat)
<1>1. IsWellFoundedOn(less, Nat)
  BY NatLessThanWellFounded
<1>2. \A x, y \in Nat : x < y => <<x, y>> \in less
  BY DEF OpToRel
<1> HIDE DEF less
<1>3. PICK x \in S : \A y \in S : ~ (<<y, x>> \in less)
  BY <1>1, WFMin
<1>4. ASSUME NEW m \in S PROVE x <= m
  <2>1. x \in Nat /\ m \in Nat /\ ~(m < x)
    BY <1>2, <1>3
  <2> QED
    BY <2>1
<1> QED
  BY <1>4

\* A sequence without one of its elements.
Without(s, k) == SubSeq(s, 1, k - 1) \o SubSeq(s, k + 1, Len(s))

LEMMA Removed ==
    ASSUME NEW S, NEW s \in Seq(S), NEW k \in DOMAIN s
    PROVE  /\ Without(s, k) \in Seq(S) /\ DOMAIN Without(s, k) = 1..(Len(s) - 1)
           /\ \A i \in DOMAIN Without(s, k) :
                 Without(s, k)[i] = IF i < k THEN s[i] ELSE s[i + 1]
<1> DEFINE d == Without(s, k)
<1>0. /\ DOMAIN s = 1..Len(s) /\ Len(s) \in Nat /\ k \in 1..Len(s) /\ Len(s) - 1 \in Nat
      /\ \A i \in 1..Len(s) : s[i] \in S
  OBVIOUS
<1> DEFINE front == SubSeq(s, 1, k - 1)
           rear  == SubSeq(s, k + 1, Len(s))
<1>1. /\ front \in Seq(S) /\ Len(front) = k - 1 /\ \A i \in 1..(k - 1) : front[i] = s[i]
  BY <1>0
<1>2. /\ rear \in Seq(S) /\ Len(rear) = Len(s) - k
      /\ \A i \in 1..(Len(s) - k) : rear[i] = s[k + i]
  BY <1>0
<1>3. d = front \o rear
  BY DEF Without
<1> HIDE DEF front, rear, d
<1>4. /\ d \in Seq(S) /\ Len(d) = Len(s) - 1
      /\ \A i \in 1..(k - 1) : d[i] = front[i]
      /\ \A i \in 1..(Len(s) - k) : d[k - 1 + i] = rear[i]
  <2>1. front \in Seq(S) /\ rear \in Seq(S)
    BY <1>1, <1>2
  <2>2. /\ front \o rear \in Seq(S) /\ Len(front \o rear) = Len(front) + Len(rear)
        /\ \A i \in 1..Len(front) : (front \o rear)[i] = front[i]
        /\ \A i \in 1..Len(rear) : (front \o rear)[Len(front) + i] = rear[i]
    BY <2>1
  <2>3. Len(front) + Len(rear) = Len(s) - 1
    BY <1>0, <1>1, <1>2
  <2> QED
    BY <1>1, <1>2, <1>3, <2>2, <2>3
<1>5. ASSUME NEW i \in 1..(Len(s) - 1), i < k PROVE d[i] = s[i]
  BY <1>0, <1>1, <1>4, <1>5
<1>6. ASSUME NEW i \in 1..(Len(s) - 1), ~(i < k) PROVE d[i] = s[i + 1]
  <2>1. PICK r \in 1..(Len(s) - k) : k - 1 + r = i /\ k + r = i + 1
    <3>1. i - (k - 1) \in 1..(Len(s) - k)
      BY <1>0, <1>6
    <3>2. k - 1 + (i - (k - 1)) = i /\ k + (i - (k - 1)) = i + 1
      BY <1>0
    <3> QED
      BY <3>1, <3>2
  <2> QED
    BY <1>2, <1>4, <2>1
<1>7. DOMAIN d = 1..(Len(s) - 1)
  BY <1>0, <1>4
<1> QED
  BY <1>4, <1>5, <1>6, <1>7 DEF d

-----------------------------------------------------------------------------
(* Memory.                                                                 *)

MemoryType == [id : Y!Ids, text : Y!Texts, updated : Nat]

\* Memories are told apart by when they were last asked for, too: that is what the prompt goes by.
MemoriesInv ==
    /\ yMemories \in Seq(MemoryType) /\ yDay \in 1..MaxDays /\ yClock \in Nat
    /\ yRequests \in [Savers -> Seq(Y!Texts)]
    /\ \A i \in DOMAIN yMemories : yMemories[i].updated < yClock
    /\ \A i, j \in DOMAIN yMemories : i # j => yMemories[i].updated # yMemories[j].updated
    /\ Y!MemoriesAreDistinct

\* The modules count alike.
LEMMA SameCardinality == \A S : Y!Cardinality(S) = Cardinality(S)
  BY DEF Y!Cardinality, Cardinality

\* There are no more texts than words, and one.
LEMMA FewTexts == IsFiniteSet(Y!Texts) /\ Cardinality(Y!Texts) <= Cardinality(Words) + 1
<1> DEFINE ones == {{<<0, w>>} : w \in Words}
           h == [w \in Words |-> {<<0, w>>}]
           e == {<<1, 1>>, <<0, CHOOSE w \in Words : TRUE>>}
<1>1. h \in Surjection(Words, ones)
  BY DEF Surjection
<1>2. Y!Texts = ones \cup {e}
  BY DEF Y!Texts
<1> HIDE DEF ones, h, e
<1>3. IsFiniteSet(ones) /\ Cardinality(ones) <= Cardinality(Words)
  BY <1>1, WordsAssumption, FS_Surjection
<1>4. /\ IsFiniteSet(ones \cup {e})
      /\ Cardinality(ones \cup {e}) =
            IF e \in ones THEN Cardinality(ones) ELSE Cardinality(ones) + 1
  BY <1>3, FS_AddElement
<1>5. Cardinality(Words) \in Nat /\ Cardinality(ones) \in Nat
  BY <1>3, WordsAssumption, FS_CardinalityType
<1> QED
  BY <1>2, <1>3, <1>4, <1>5

\* A text that no memory has is one text more.
LEMMA RoomForOne ==
    ASSUME MemoriesInv, NEW text \in Y!Texts, Y!Matching(text) = {}
    PROVE  Len(yMemories) + 1 <= Cardinality(Words) + 1
<1>1. /\ yMemories \in Seq(MemoryType) /\ Len(yMemories) \in Nat
      /\ DOMAIN yMemories = 1..Len(yMemories)
      /\ \A i, j \in DOMAIN yMemories : i # j => yMemories[i].text # yMemories[j].text
  BY DEF MemoriesInv, Y!MemoriesAreDistinct
<1>2. \A i \in DOMAIN yMemories : yMemories[i].text \in Y!Texts /\ yMemories[i].text # text
  <2>1. \A i \in DOMAIN yMemories : yMemories[i] \in MemoryType
    BY <1>1
  <2> QED
    BY <2>1 DEF MemoryType, Y!Matching
<1> DEFINE n == Len(yMemories) + 1
           f == [i \in 1..n |-> IF i = n THEN text ELSE yMemories[i].text]
<1>3. f \in Injection(1..n, Y!Texts)
  <2>1. \A i \in 1..n : i # n => i \in DOMAIN yMemories
    BY <1>1
  <2>2. \A i \in 1..n : f[i] \in Y!Texts
    BY <1>2, <2>1
  <2>3. \A i, j \in 1..n : f[i] = f[j] => i = j
    BY <1>1, <1>2, <2>1
  <2>4. f \in [1..n -> Y!Texts]
    BY <2>2
  <2> HIDE DEF f
  <2> QED
    BY <2>3, <2>4, Zenon DEF Injection, IsInjective
<1> HIDE DEF f
<1>4. Cardinality(1..n) <= Cardinality(Y!Texts)
  BY <1>3, FewTexts, FS_Injection
<1>5. Cardinality(1..n) = n
  BY <1>1, FS_Interval
<1>6. Cardinality(Words) \in Nat /\ Cardinality(Y!Texts) \in Nat
  BY WordsAssumption, FewTexts, FS_CardinalityType
<1> QED
  BY <1>1, <1>4, <1>5, <1>6, FewTexts

\* The new id is one that no memory has.
LEMMA NewIdIsFree ==
    ASSUME MemoriesInv, NEW text \in Y!Texts, Y!Matching(text) = {}
    PROVE  Y!NewId \in Y!Ids /\ \A i \in DOMAIN yMemories : yMemories[i].id # Y!NewId
<1> DEFINE n == Len(yMemories)
           Free == {k \in 1..(n + 1) : <<yDay, k>> \notin Y!Existing}
<1>1. n \in Nat /\ DOMAIN yMemories = 1..n
  BY DEF MemoriesInv
<1>2. Free # {}
  <2> SUFFICES ASSUME \A k \in 1..(n + 1) : <<yDay, k>> \in Y!Existing PROVE FALSE
    OBVIOUS
  <2> DEFINE f == [k \in 1..(n + 1) |-> CHOOSE i \in 1..n : yMemories[i].id = <<yDay, k>>]
  <2>1. \A k \in 1..(n + 1) : \E i \in 1..n : yMemories[i].id = <<yDay, k>>
    BY <1>1 DEF Y!Existing
  <2>2. \A k \in 1..(n + 1) : f[k] \in 1..n /\ yMemories[f[k]].id = <<yDay, k>>
    BY <2>1
  <2>3. f \in [1..(n + 1) -> 1..n]
    BY <2>2
  <2> HIDE DEF f
  <2>4. /\ IsFiniteSet(1..n) /\ IsFiniteSet(1..(n + 1))
        /\ Cardinality(1..n) = n /\ Cardinality(1..(n + 1)) = n + 1
    <3>1. /\ n \in Int /\ n + 1 \in Int /\ 1 \in Int /\ (1 > n <=> n = 0) /\ ~(1 > n + 1)
          /\ n - 1 + 1 = n /\ n + 1 - 1 + 1 = n + 1
      BY <1>1
    <3>2. IsFiniteSet(1..n) /\ Cardinality(1..n) = (IF 1 > n THEN 0 ELSE n - 1 + 1)
      BY <3>1, FS_Interval
    <3>3. IsFiniteSet(1..(n + 1)) /\ Cardinality(1..(n + 1)) = (IF 1 > n + 1 THEN 0 ELSE n + 1 - 1 + 1)
      BY <3>1, FS_Interval
    <3> QED
      BY <3>1, <3>2, <3>3
  <2>5. Cardinality(1..n) < Cardinality(1..(n + 1))
    BY <1>1, <2>4
  <2>6. PICK k, l \in 1..(n + 1) : k # l /\ f[k] = f[l]
    BY <2>3, <2>4, <2>5, FS_PigeonHole
  <2> QED
    BY <2>2, <2>6
<1>3. PICK k \in Free : \A m \in Free : k <= m
  <2>1. Free \in SUBSET Nat
    OBVIOUS
  <2> HIDE DEF Free
  <2> QED
    BY <1>2, <2>1, LeastNumber
<1>4. /\ k \in 1..(n + 1) /\ <<yDay, k>> \notin Y!Existing
      /\ \A m \in 1..(k - 1) : <<yDay, m>> \in Y!Existing
  BY <1>1, <1>3
<1>5. PICK c \in 1..(n + 1) : Y!NewId = <<yDay, c>> /\ <<yDay, c>> \notin Y!Existing
  BY <1>4 DEF Y!NewId
<1>6. n + 1 <= Cardinality(Words) + 1 /\ Cardinality(Words) \in Nat
  BY RoomForOne, WordsAssumption, FS_CardinalityType
<1>7. c \in 1..Cardinality(Words) + 1
  BY <1>1, <1>5, <1>6
<1> QED
  <2>1. yDay \in 1..MaxDays
    BY DEF MemoriesInv
  <2>2. Y!NewId \in Y!Ids
    <3>1. <<yDay, c>> \in Y!Ids
      BY ONLY <1>7, <2>1, SameCardinality DEF Y!Ids
    <3> QED
      BY <1>5, <3>1
  <2> QED
    BY <1>5, <2>2 DEF Y!Existing

\* One transaction.
LEMMA AppliedKeeps ==
    ASSUME MemoriesInv, NEW text \in Y!Texts, yMemories' = Y!Applied(text),
           yClock' = yClock + 1, UNCHANGED yDay, yRequests' \in [Savers -> Seq(Y!Texts)]
    PROVE  MemoriesInv'
<1>1. /\ yMemories \in Seq(MemoryType) /\ yClock \in Nat /\ yDay \in 1..MaxDays
      /\ DOMAIN yMemories = 1..Len(yMemories) /\ Len(yMemories) \in Nat
      /\ \A i \in DOMAIN yMemories : yMemories[i] \in MemoryType /\ yMemories[i].updated < yClock
      /\ \A i, j \in DOMAIN yMemories :
            i # j => /\ yMemories[i].updated # yMemories[j].updated
                     /\ yMemories[i].id # yMemories[j].id /\ yMemories[i].text # yMemories[j].text
  BY DEF MemoriesInv, Y!MemoriesAreDistinct
<1>2. CASE Y!Matching(text) # {}
  <2>1. PICK i \in DOMAIN yMemories : yMemories' = [yMemories EXCEPT ![i].updated = yClock]
    BY <1>2 DEF Y!Applied, Y!Matching
  <2>2. DOMAIN yMemories' = DOMAIN yMemories
    BY <2>1
  <2>3. /\ yMemories'[i].updated = yClock /\ yMemories'[i].id = yMemories[i].id
        /\ yMemories'[i].text = yMemories[i].text /\ yMemories'[i] \in MemoryType
    BY <1>1, <2>1 DEF MemoryType
  <2>4. \A j \in DOMAIN yMemories \ {i} : yMemories'[j] = yMemories[j]
    BY <2>1
  <2>5. yMemories' \in Seq(MemoryType)
    BY <1>1, <2>1, <2>3
  <2>6. /\ yClock' = yClock + 1 /\ yDay' = yDay /\ yRequests' \in [Savers -> Seq(Y!Texts)]
    OBVIOUS
  <2>7. \A j \in DOMAIN yMemories' : yMemories'[j].updated < yClock'
    <3>1. \A j \in DOMAIN yMemories : yMemories[j].updated <= yClock
      BY <1>1 DEF MemoryType
    <3>2. \A j \in DOMAIN yMemories' : yMemories'[j].updated \in Nat
      <4>1. \A j \in DOMAIN yMemories' : yMemories'[j] \in MemoryType
        BY <2>5
      <4> QED
        BY <4>1 DEF MemoryType
    <3>3. \A j \in DOMAIN yMemories' : yMemories'[j].updated <= yClock
      BY <1>1, <2>2, <2>3, <2>4, <3>1
    <3>4. \A m \in Nat : m <= yClock => m < yClock + 1
      BY <1>1
    <3> QED
      BY <2>6, <3>2, <3>3, <3>4
  <2>8. \A j, k \in DOMAIN yMemories' :
           j # k => /\ yMemories'[j].updated # yMemories'[k].updated
                    /\ yMemories'[j].id # yMemories'[k].id /\ yMemories'[j].text # yMemories'[k].text
    <3>1. \A j \in DOMAIN yMemories : yMemories[j].updated # yClock
      <4>1. \A j \in DOMAIN yMemories : yMemories[j].updated \in Nat
        BY <1>1 DEF MemoryType
      <4>2. \A m \in Nat : m < yClock => m # yClock
        BY <1>1
      <4> QED
        BY <1>1, <4>1, <4>2
    <3>2. \A j \in DOMAIN yMemories :
             yMemories'[j].id = yMemories[j].id /\ yMemories'[j].text = yMemories[j].text
      BY <2>3, <2>4
    <3>3. \A j \in DOMAIN yMemories \ {i} :
             yMemories'[j].updated = yMemories[j].updated /\ yMemories'[j].updated # yMemories'[i].updated
      BY <2>3, <2>4, <3>1
    <3>4. ASSUME NEW j \in DOMAIN yMemories, NEW k \in DOMAIN yMemories, j # k
          PROVE  yMemories'[j].updated # yMemories'[k].updated
      <4>1. CASE j = i \/ k = i
        BY <3>3, <3>4, <4>1
      <4>2. CASE j # i /\ k # i
        BY <1>1, <3>3, <3>4, <4>2
      <4> QED
        BY <4>1, <4>2
    <3> QED
      BY <1>1, <2>2, <3>2, <3>4
  <2> QED
    BY <1>1, <2>5, <2>6, <2>7, <2>8 DEF MemoriesInv, Y!MemoriesAreDistinct
<1>3. CASE Y!Matching(text) = {}
  <2> DEFINE new == [id |-> Y!NewId, text |-> text, updated |-> yClock]
             n == Len(yMemories)
  <2>1. /\ new \in MemoryType /\ new.updated = yClock /\ new.id = Y!NewId /\ new.text = text
    BY <1>1, <1>3, NewIdIsFree DEF MemoryType
  <2>2. \A i \in DOMAIN yMemories :
           yMemories[i].id # new.id /\ yMemories[i].text # new.text
    BY <1>3, <2>1, NewIdIsFree DEF Y!Matching
  <2>3. yMemories' = Append(yMemories, new)
    BY <1>3 DEF Y!Applied
  <2> HIDE DEF new
  <2>4. /\ yMemories' \in Seq(MemoryType) /\ DOMAIN yMemories' = 1..n + 1
        /\ \A i \in 1..n : yMemories'[i] = yMemories[i]
        /\ yMemories'[n + 1] = new
    BY <1>1, <2>1, <2>3
  <2>6. /\ yClock' = yClock + 1 /\ yDay' = yDay /\ yRequests' \in [Savers -> Seq(Y!Texts)]
    OBVIOUS
  <2>0. \A j \in DOMAIN yMemories' :
           j # n + 1 => j \in DOMAIN yMemories /\ yMemories'[j] = yMemories[j]
    BY <1>1, <2>4
  <2>7. \A j \in DOMAIN yMemories' : yMemories'[j].updated < yClock'
    <3>1. \A j \in DOMAIN yMemories : yMemories[j].updated <= yClock
      BY <1>1 DEF MemoryType
    <3>2. \A j \in DOMAIN yMemories' : yMemories'[j].updated \in Nat
      <4>1. \A j \in DOMAIN yMemories' : yMemories'[j] \in MemoryType
        BY <2>4
      <4> QED
        BY <4>1 DEF MemoryType
    <3>3. \A j \in DOMAIN yMemories' : yMemories'[j].updated <= yClock
      BY <1>1, <2>0, <2>1, <2>4, <3>1
    <3>4. \A m \in Nat : m <= yClock => m < yClock + 1
      BY <1>1
    <3> QED
      BY <2>6, <3>2, <3>3, <3>4
  <2>8. \A j, k \in DOMAIN yMemories' :
           j # k => /\ yMemories'[j].updated # yMemories'[k].updated
                    /\ yMemories'[j].id # yMemories'[k].id /\ yMemories'[j].text # yMemories'[k].text
    <3> SUFFICES ASSUME NEW j \in DOMAIN yMemories', NEW k \in DOMAIN yMemories', j # k, j # n + 1
                 PROVE  /\ yMemories'[j].updated # yMemories'[k].updated
                        /\ yMemories'[j].id # yMemories'[k].id
                        /\ yMemories'[j].text # yMemories'[k].text
      OBVIOUS
    <3>1. CASE k = n + 1
      BY <1>1, <2>0, <2>1, <2>2, <2>4, <3>1 DEF MemoryType
    <3>2. CASE k # n + 1
      BY <1>1, <2>0, <3>2
    <3> QED
      BY <3>1, <3>2
  <2> QED
    BY <1>1, <2>4, <2>6, <2>7, <2>8 DEF MemoriesInv, Y!MemoriesAreDistinct
<1> QED
  BY <1>2, <1>3

LEMMA MemoriesKeep == ASSUME MemoriesInv, Y!Next PROVE MemoriesInv'
<1>1. /\ yMemories \in Seq(MemoryType) /\ yClock \in Nat /\ yDay \in 1..MaxDays
      /\ yRequests \in [Savers -> Seq(Y!Texts)]
  BY DEF MemoriesInv
<1>2. ASSUME UNCHANGED <<yMemories, yClock>>, yDay' \in 1..MaxDays,
             yRequests' \in [Savers -> Seq(Y!Texts)]
      PROVE  MemoriesInv'
  BY <1>2 DEF MemoriesInv, Y!MemoriesAreDistinct
<1>3. CASE Y!Restart
  BY <1>1, <1>2, <1>3 DEF Y!Restart
<1>4. CASE Y!NextDay
  BY <1>1, <1>2, <1>4, WordsAssumption DEF Y!NextDay
<1>5. ASSUME NEW t \in Savers, NEW a \in Y!Texts, NEW b \in Y!Texts,
             Y!Reply(t, IF a = b THEN <<a>> ELSE <<a, b>>)
      PROVE  MemoriesInv'
  <2>1. (IF a = b THEN <<a>> ELSE <<a, b>>) \in Seq(Y!Texts)
    OBVIOUS
  <2> QED
    BY <1>1, <1>2, <1>5, <2>1 DEF Y!Reply
<1>6. ASSUME NEW t \in Savers, Y!Save(t) \/ Y!SaveFails(t) PROVE MemoriesInv'
  <2>1. yRequests[t] # <<>> /\ yRequests' = [yRequests EXCEPT ![t] = Tail(@)]
    BY <1>6 DEF Y!Save, Y!SaveFails
  <2>2. yRequests[t][1] \in Y!Texts /\ Tail(yRequests[t]) \in Seq(Y!Texts)
    BY <1>1, <2>1
  <2>3. yRequests' \in [Savers -> Seq(Y!Texts)]
    BY <1>1, <2>1, <2>2
  <2>4. CASE Y!Save(t)
    <3>1. /\ yMemories' = Y!Applied(yRequests[t][1]) /\ yClock' = yClock + 1 /\ UNCHANGED yDay
      BY <2>4 DEF Y!Save
    <3>2. PICK text \in Y!Texts : text = yRequests[t][1]
      BY <2>2
    <3> QED
      BY <2>3, <3>1, <3>2, AppliedKeeps
  <2>5. CASE Y!SaveFails(t)
    BY <1>1, <1>2, <2>3, <2>5 DEF Y!SaveFails
  <2> QED
    BY <1>6, <2>4, <2>5
<1>7. ASSUME NEW query \in Y!Queries, Y!Forget(query) PROVE MemoriesInv'
  <2>1. PICK i \in DOMAIN yMemories :
           yMemories' = SubSeq(yMemories, 1, i - 1) \o SubSeq(yMemories, i + 1, Len(yMemories))
    <3>1. Y!Matches(query) # {} /\ Y!Matches(query) \subseteq DOMAIN yMemories
      BY <1>7 DEF Y!Forget, Y!Matches
    <3>2. DOMAIN yMemories \subseteq Nat
      BY <1>1
    <3>3. PICK k \in Y!Matches(query) : \A j \in Y!Matches(query) : k <= j
      BY <3>1, <3>2, LeastNumber
    <3> QED
      BY <1>7, <3>1, <3>3 DEF Y!Forget
  <2>2. /\ yMemories' \in Seq(MemoryType) /\ DOMAIN yMemories' = 1..(Len(yMemories) - 1)
        /\ \A k \in DOMAIN yMemories' :
              yMemories'[k] = IF k < i THEN yMemories[k] ELSE yMemories[k + 1]
    <3>1. yMemories' = Without(yMemories, i)
      BY <2>1 DEF Without
    <3> QED
      BY <1>1, <3>1, Removed
  <2>3. DOMAIN yMemories = 1..Len(yMemories) /\ Len(yMemories) \in Nat
    BY <1>1
  <2>4. \A k, l \in DOMAIN yMemories' :
           \E p, q \in DOMAIN yMemories : /\ yMemories'[k] = yMemories[p]
                                          /\ yMemories'[l] = yMemories[q] /\ (k # l => p # q)
    BY <2>2, <2>3
  <2>5. UNCHANGED <<yRequests, yDay, yClock>>
    BY <1>7 DEF Y!Forget
  <2>6. \A k \in DOMAIN yMemories' : yMemories'[k].updated < yClock
    BY <2>4 DEF MemoriesInv
  <2>7. \A k, l \in DOMAIN yMemories' :
           k # l => /\ yMemories'[k].updated # yMemories'[l].updated
                    /\ yMemories'[k].id # yMemories'[l].id /\ yMemories'[k].text # yMemories'[l].text
    <3> SUFFICES ASSUME NEW k \in DOMAIN yMemories', NEW l \in DOMAIN yMemories', k # l
                 PROVE  /\ yMemories'[k].updated # yMemories'[l].updated
                        /\ yMemories'[k].id # yMemories'[l].id
                        /\ yMemories'[k].text # yMemories'[l].text
      OBVIOUS
    <3>1. PICK p, q \in DOMAIN yMemories :
             yMemories'[k] = yMemories[p] /\ yMemories'[l] = yMemories[q] /\ p # q
      BY <2>4
    <3> QED
      BY <3>1 DEF MemoriesInv, Y!MemoriesAreDistinct
  <2> QED
    BY <1>1, <2>2, <2>5, <2>6, <2>7 DEF MemoriesInv, Y!MemoriesAreDistinct
<1> QED
  BY <1>3, <1>4, <1>5, <1>6, <1>7 DEF Y!Next

\* The prompt has room for what it shows.
LEMMA ShownFits == ASSUME MemoriesInv PROVE Cardinality(Y!Shown) <= MemoryLength
<1> DEFINE D == DOMAIN yMemories
           Older(i) == {j \in D : yMemories[j].updated < yMemories[i].updated}
           f == [i \in Y!Shown |-> Cardinality(Older(i))]
<1>1. /\ D = 1..Len(yMemories) /\ Len(yMemories) \in Nat
      /\ \A i \in D : yMemories[i].updated \in Nat
      /\ \A i, j \in D : i # j => yMemories[i].updated # yMemories[j].updated
  <2>1. \A i \in D : yMemories[i] \in MemoryType
    BY DEF MemoriesInv
  <2> QED
    BY <2>1 DEF MemoriesInv, MemoryType
<1>2. IsFiniteSet(D)
  BY <1>1, FS_Interval
<1>3. \A i \in D : IsFiniteSet(Older(i)) /\ Cardinality(Older(i)) \in Nat
  BY <1>2, FS_Subset, FS_CardinalityType
<1>4. Y!Shown = {i \in D : Cardinality(Older(i)) < MemoryLength}
  BY SameCardinality DEF Y!Shown
<1> HIDE DEF D, Older
<1>5. ASSUME NEW i \in D, NEW j \in D, yMemories[i].updated < yMemories[j].updated
      PROVE  Cardinality(Older(i)) # Cardinality(Older(j))
  <2>1. Older(i) \subseteq Older(j) /\ i \in Older(j) /\ i \notin Older(i)
    BY <1>1, <1>5 DEF Older
  <2> QED
    BY <1>3, <2>1, FS_Subset
<1>6. \A i \in Y!Shown : f[i] \in 0..(MemoryLength - 1)
  BY <1>3, <1>4, WordsAssumption
<1>7. \A i, j \in Y!Shown : f[i] = f[j] => i = j
  BY <1>1, <1>4, <1>5
<1>8. f \in Injection(Y!Shown, 0..(MemoryLength - 1))
  <2>1. f \in [Y!Shown -> 0..(MemoryLength - 1)]
    BY <1>6
  <2> HIDE DEF f
  <2> QED
    BY <1>7, <2>1, Zenon DEF Injection, IsInjective
<1>9. IsFiniteSet(0..(MemoryLength - 1)) /\ Cardinality(0..(MemoryLength - 1)) = MemoryLength
  BY WordsAssumption, FS_Interval
<1> QED
  BY <1>8, <1>9, FS_Injection

LEMMA MemoriesBegin == ASSUME Y!Init PROVE MemoriesInv
  BY WordsAssumption DEF Y!Init, MemoriesInv, Y!MemoriesAreDistinct

LEMMA MemoriesAreSound == ASSUME MemoriesInv PROVE Y!TypeOK /\ Y!MemoriesAreDistinct
<1>1. \A i \in DOMAIN yMemories : yMemories[i].id \in Y!Ids /\ yMemories[i].text \in Y!Texts
  <2>1. \A i \in DOMAIN yMemories : yMemories[i] \in MemoryType
    BY DEF MemoriesInv
  <2> QED
    BY <2>1 DEF MemoryType
<1> QED
  BY <1>1, ShownFits, SameCardinality DEF MemoriesInv, Y!TypeOK, Y!Existing

-----------------------------------------------------------------------------
(* Learning and memory together.                                           *)

LEMMA LearningGoesOn == LearningInv /\ [MCNext]_allVars => LearningInv'
<1>1. CASE N!Next /\ LearningInv
  BY <1>1, LearningKeeps
<1>2. CASE UNCHANGED learning /\ LearningInv
  BY <1>2 DEF learning, LearningInv, NTypes, SnapshotInv, CandidatesInv, IndexInv,
              N!VersionsAgree, N!CandidatesWerePublished, N!ArtifactsAreIndexedOnce
<1> QED
  BY <1>1, <1>2 DEF MCNext, allVars, knowledge, InReviews, InLineage, InEvolution, InCuration,
     InLearning, InMemory, InMigration, InPrivateState, InEnvironments, InQuotaWarnings,
     InOutbound, InSlackUpload, InSlackIntake

\* A learning candidate is one revision of its source as it was published, an artifact has
\* its one line in the index, and a memory keeps an id and a text that no other has, within
\* the budget of the prompt: over pushes to the source, failed writes, two threads that save
\* and restarts (load_published_skill, record_learning_artifact, apply_memory_candidates).
THEOREM KnowledgeStaysSound == MCSpec => []KnowledgeIsSound
<1>1. MCInit => LearningInv /\ MemoriesInv
  BY LearningBegins, MemoriesBegin DEF MCInit
<1>2. LearningInv /\ [MCNext]_allVars => LearningInv'
  BY LearningGoesOn
<1>3. MemoriesInv /\ [MCNext]_allVars => MemoriesInv'
  <2>1. CASE Y!Next /\ MemoriesInv
    BY <2>1, MemoriesKeep
  <2>2. CASE UNCHANGED memory /\ MemoriesInv
    BY <2>2 DEF memory, MemoriesInv, Y!MemoriesAreDistinct
  <2> QED
    BY <2>1, <2>2 DEF MCNext, allVars, knowledge, InReviews, InLineage, InEvolution, InCuration,
       InLearning, InMemory, InMigration, InPrivateState, InEnvironments, InQuotaWarnings,
       InOutbound, InSlackUpload, InSlackIntake
<1>4. LearningInv /\ MemoriesInv => KnowledgeIsSound
  <2>1. LearningInv => N!TypeOK /\ N!CandidatesWerePublished /\ N!ArtifactsAreIndexedOnce
    BY DEF LearningInv, NTypes, CandidatesInv, IndexInv, N!TypeOK, N!Newest
  <2> QED
    BY <2>1, MemoriesAreSound DEF KnowledgeIsSound
<1> QED
  BY <1>1, <1>2, <1>3, <1>4, PTL DEF MCSpec

-----------------------------------------------------------------------------
(* Migration.                                                              *)

\* What is known of the state, after n exports.
Bundle0 == [floor : Nat, files : 1..MaxVersion, cancelled : BOOLEAN, failed : BOOLEAN]
Command0 == [at : {"none", "fence", "archive", "bundle", "exported", "import", "files", "imported",
                   "activated"},
             id : 0..MaxBundles, generation : Nat, files : 0..G!Partial]
GTypes(n) ==
    /\ gState \in [Hosts -> 0..G!Partial]
    /\ gEpoch \in [Hosts -> [generation : Nat, alive : BOOLEAN]]
    /\ gSource \in [Hosts -> G!Marker] /\ gTarget \in [Hosts -> G!Marker]
    /\ gBundles \in [1..n -> Bundle0] /\ n <= MaxBundles
    /\ gCommand \in [Hosts -> Command0]
    /\ gStart \in [Hosts -> {"none", "checked", "written"}]
    /\ gNewest \in 1..MaxVersion /\ gGranted \in Nat
    /\ gStarts \in 0..MaxStarts /\ gFaults \in 0..StateFaults

Quiet(g) == ~gEpoch[g].alive /\ gStart[g] = "none"

\* A bundle is taken by a host that imported it, and spent when it can be imported no more.
Done(t) == gTarget[t].status \in {"imported", "activated", "verified"} /\ gState[t] # G!Partial
Taken(b) == \E t \in Hosts : gTarget[t].id = b /\ Done(t)
Spent(b) == gBundles[b].cancelled \/ gBundles[b].failed \/ \E t \in Hosts : gTarget[t].id = b

\* A host without the agent: it never had it, the agent has left it, or what was imported
\* there was cancelled halfway.
Idle(g) ==
    /\ gState[g] = 0 /\ gTarget[g] = G!NoMarker /\ gSource[g].status = "none"
    /\ gEpoch[g].generation = 0
Left(g, n) ==
    /\ gSource[g].status # "none" /\ gSource[g].id \in 1..n /\ Taken(gSource[g].id)
    /\ gTarget[g].status \in {"none", "verified"}
Dead(g, n) ==
    /\ gSource[g].status = "none" /\ gTarget[g].status = "importing" /\ gTarget[g].id \in 1..n
    /\ gBundles[gTarget[g].id].cancelled /\ gState[g] = G!Partial
Aside(g, n) == Quiet(g) /\ gCommand[g].at = "none" /\ (Idle(g) \/ Left(g, n) \/ Dead(g, n))

\* The generations granted so far, and one more that is about to be, are bounded.
MayGrant(n, more) == gGranted + more <= n + gStarts + (StateFaults - gFaults)

\* The host that the agent is on, or was on last: its state and its authority are the newest.
Owns(h, n) ==
    /\ gState[h] = gNewest /\ gTarget[h].floor <= gEpoch[h].generation
    /\ \A b \in 1..n : b < n => Spent(b)

\* The agent is on h, which may be about to export it.
Open(h, n) ==
    /\ Owns(h, n) /\ (n > 0 => Spent(n)) /\ gEpoch[h].generation = gGranted
    /\ gTarget[h].status \in {"none", "activated", "verified"}
    /\ gSource[h].status # "none" \/ gCommand[h].at # "none"
         => gStart[h] = "none" /\ gTarget[h].status \in {"none", "verified"}
    /\ gSource[h].status # "none" => gSource[h].status = "preparing" /\ gSource[h].id = n + 1
    /\ gCommand[h].at \in {"none", "fence", "archive", "bundle"}
    /\ gCommand[h].at # "none" =>
         /\ gCommand[h].id = n + 1 /\ gCommand[h].generation = gEpoch[h].generation
         /\ gSource[h].status = "none" <=> gCommand[h].at = "fence"
    /\ gCommand[h].at = "bundle" => gCommand[h].files = gNewest /\ ~gEpoch[h].alive
    /\ gStart[h] = "checked" => MayGrant(n, 1)
    /\ MayGrant(n, 0)
    /\ \A g \in Hosts \ {h} : Aside(g, n)

\* The agent is in the bundle n, which h exported and nobody has imported yet.
InBundle(h, n) ==
    /\ Owns(h, n) /\ Quiet(h) /\ n > 0
    /\ gSource[h].status \in {"preparing", "exported"} /\ gSource[h].id = n
    /\ gTarget[h].status \in {"none", "verified"}
    /\ ~gBundles[n].cancelled /\ ~gBundles[n].failed /\ gBundles[n].files = gNewest
    /\ gBundles[n].floor = gEpoch[h].generation
Exported(h, n) ==
    /\ InBundle(h, n) /\ gEpoch[h].generation = gGranted /\ MayGrant(n, 1)
    /\ gCommand[h].at \in {"none", "exported"}
    /\ gCommand[h].at = "exported" => gSource[h].status = "preparing" /\ gCommand[h].id = n
    /\ \A g \in Hosts \ {h} : Aside(g, n)

\* It moves from h to p.
Importing(p, n) ==
    /\ gEpoch[p].generation = 0
    /\ \/ gCommand[p].at = "import" /\ gTarget[p] = G!NoMarker /\ gState[p] = 0
       \/ /\ gTarget[p].status = "importing" /\ gTarget[p].id = n
          /\ gTarget[p].floor = gBundles[n].floor
          /\ \/ gCommand[p].at = "none" /\ gState[p] \in {0, G!Partial, gNewest}
             \/ gCommand[p].at = "files" /\ gState[p] \in {0, G!Partial}
             \/ gCommand[p].at = "imported" /\ gState[p] = gNewest
Imported(p, n) ==
    /\ gTarget[p].status = "imported" /\ gTarget[p].id = n
    /\ gTarget[p].floor = gBundles[n].floor /\ gState[p] = gNewest
    /\ gCommand[p].at \in {"none", "activated"}
    /\ \/ gCommand[p].at = "none" /\ gEpoch[p].generation = 0
       \/ gEpoch[p].generation = gGranted /\ gGranted > gBundles[n].floor
Moving(h, p, n) ==
    /\ InBundle(h, n) /\ gCommand[h].at = "none" /\ p # h
    /\ Quiet(p) /\ gSource[p].status = "none"
    /\ gCommand[p].at \in {"import", "files", "imported"} => gCommand[p].id = n
    /\ MayGrant(n, IF gCommand[p].at = "activated" THEN 0 ELSE 1)
    /\ \/ gGranted = gBundles[n].floor /\ (Importing(p, n) \/ Imported(p, n))
       \/ gGranted > gBundles[n].floor /\ Imported(p, n) /\ gEpoch[p].generation = gGranted
    /\ \A g \in Hosts \ {h, p} : Aside(g, n)

Phase(n) ==
    \E h \in Hosts : Open(h, n) \/ Exported(h, n) \/ \E p \in Hosts : Moving(h, p, n)
MigrationInv == \E n \in Nat : GTypes(n) /\ Phase(n)

\* Nothing happens to the other hosts.
Only(k) ==
    \A g \in Hosts \ {k} :
        /\ gState'[g] = gState[g] /\ gEpoch'[g] = gEpoch[g] /\ gSource'[g] = gSource[g]
        /\ gTarget'[g] = gTarget[g] /\ gCommand'[g] = gCommand[g] /\ gStart'[g] = gStart[g]

HostStep(k) == G!Daemon(k) \/ G!Export(k) \/ G!Import(k) \/ G!Interrupted(k)

LEMMA StepIsLocal ==
    ASSUME NEW n \in Nat, GTypes(n), NEW k \in Hosts, HostStep(k)
    PROVE  Only(k)
<1>1. /\ gState \in [Hosts -> 0..G!Partial]
      /\ gEpoch \in [Hosts -> [generation : Nat, alive : BOOLEAN]]
      /\ gSource \in [Hosts -> G!Marker] /\ gTarget \in [Hosts -> G!Marker]
      /\ gCommand \in [Hosts -> Command0] /\ gStart \in [Hosts -> {"none", "checked", "written"}]
  BY DEF GTypes
<1>2. CASE G!Daemon(k)
  BY <1>1, <1>2 DEF Only, G!Daemon, G!StartChecks, G!StartWrites, G!Grant, G!StartRecords, G!Work,
                    G!DaemonEnds
<1>3. CASE G!Export(k)
  BY <1>1, <1>3 DEF Only, G!Export, G!ExportBegins, G!ExportFences, G!ExportArchives,
                    G!ExportBundles, G!ExportEnds, G!ExportFails, G!Cancel, G!Run, G!EndCommand
<1>4. CASE G!Import(k)
  BY <1>1, <1>4 DEF Only, G!Import, G!ImportBegins, G!ImportMarks, G!ImportWrites, G!ImportEnds,
                    G!ImportFails, G!Activate, G!Grant, G!ActivationRecorded, G!Verify, G!Run,
                    G!EndCommand
<1>5. CASE G!Interrupted(k)
  BY <1>1, <1>5 DEF Only, G!Interrupted, G!EndCommand
<1> QED
  BY <1>2, <1>3, <1>4, <1>5 DEF HostStep

\* What is aside stays aside, and what is spent stays spent.
LEMMA OthersStay ==
    ASSUME NEW k \in Hosts, NEW n \in Nat, NEW m \in Nat, n <= m, Only(k),
           Done(k) => Done(k)' /\ gTarget'[k].id = gTarget[k].id,
           \A b \in 1..n : /\ gBundles[b].cancelled => gBundles'[b].cancelled
                           /\ gBundles[b].failed => gBundles'[b].failed
    PROVE  /\ \A g \in Hosts \ {k} : Aside(g, n) => Aside(g, m)'
           /\ \A b \in 1..n : Spent(b) /\ (gTarget[k].id = b => gTarget'[k].id = b) => Spent(b)'
<1>1. \A b : Taken(b) => Taken(b)'
  BY DEF Taken, Done, Only
<1>2. \A b \in 1..n : b \in 1..m
  OBVIOUS
<1>3. ASSUME NEW g \in Hosts \ {k}, Aside(g, n) PROVE Aside(g, m)'
  BY <1>1, <1>2, <1>3 DEF Aside, Idle, Left, Dead, Quiet, Only
<1>4. ASSUME NEW b \in 1..n, Spent(b), gTarget[k].id = b => gTarget'[k].id = b PROVE Spent(b)'
  BY <1>4 DEF Spent, Only
<1> QED
  BY <1>3, <1>4

\* A host that is aside can begin an import, and nothing else.
LEMMA AsideWaits ==
    ASSUME NEW n \in Nat, GTypes(n), NEW g \in Hosts, Aside(g, n), HostStep(g)
    PROVE  \E b \in 1..n : G!ImportBegins(g, b) /\ Idle(g)
<1>1. /\ Quiet(g) /\ gCommand[g].at = "none" /\ DOMAIN gBundles = 1..n
      /\ \A b \in 1..n : gBundles[b].files \in 1..MaxVersion
  BY DEF Aside, GTypes, Bundle0
<1>2. ~G!StartWrites(g) /\ ~G!StartRecords(g) /\ ~G!Work(g) /\ ~G!DaemonEnds(g)
  BY <1>1 DEF Quiet, G!StartWrites, G!StartRecords, G!Work, G!DaemonEnds
<1>3. /\ ~G!ExportFences(g) /\ ~G!ExportArchives(g) /\ ~G!ExportBundles(g) /\ ~G!ExportEnds(g)
      /\ ~G!ExportFails(g) /\ ~G!ImportMarks(g) /\ ~G!ImportWrites(g) /\ ~G!ImportEnds(g)
      /\ ~G!ImportFails(g) /\ ~G!ActivationRecorded(g) /\ ~G!Interrupted(g)
  BY <1>1 DEF G!ExportFences, G!ExportArchives, G!ExportBundles, G!ExportEnds, G!ExportFails,
              G!ImportMarks, G!ImportWrites, G!ImportEnds, G!ImportFails, G!ActivationRecorded,
              G!Interrupted
<1>4. ~G!StartChecks(g) /\ ~G!ExportBegins(g)
  BY DEF Aside, Idle, Left, Dead, G!StartChecks, G!StartAllowed, G!ExportBegins, G!Fenced
<1>5. ~G!Cancel(g)
  BY DEF Aside, Idle, Left, Dead, Taken, Done, G!Cancel, G!Fenced
<1>6. ~G!Activate(g)
  <2>1. gTarget[g].status # "imported"
    BY DEF Aside, Idle, Left, Dead, G!NoMarker
  <2> QED
    BY <2>1 DEF G!Activate
<1>7. ~G!Verify(g)
  BY <1>1, HostsAssumption DEF Aside, Idle, Left, Dead, G!Verify, G!NoMarker, G!Partial
<1>8. PICK b \in 1..n : G!ImportBegins(g, b)
  BY <1>1, <1>2, <1>3, <1>4, <1>5, <1>6, <1>7 DEF HostStep, G!Daemon, G!Export, G!Import
<1>9. Idle(g)
  BY <1>8 DEF Aside, Left, Dead, G!ImportBegins, G!Fenced
<1> QED
  BY <1>8, <1>9

\* Where the agent is open, the steps of its host keep it there, until it is in a bundle.
LEMMA OpenStep ==
    ASSUME NEW n \in Nat, GTypes(n), NEW h \in Hosts, Open(h, n), HostStep(h), Overlap = FALSE
    PROVE  \/ GTypes(n)' /\ Open(h, n)'
           \/ GTypes(n + 1)' /\ Exported(h, n + 1)'
<1> USE HostsAssumption
<1>1. /\ gState \in [Hosts -> 0..G!Partial]
      /\ gEpoch \in [Hosts -> [generation : Nat, alive : BOOLEAN]]
      /\ gSource \in [Hosts -> G!Marker] /\ gTarget \in [Hosts -> G!Marker]
      /\ gBundles \in [1..n -> Bundle0] /\ n <= MaxBundles
      /\ gCommand \in [Hosts -> Command0]
      /\ gStart \in [Hosts -> {"none", "checked", "written"}]
      /\ gNewest \in 1..MaxVersion /\ gGranted \in Nat
      /\ gStarts \in 0..MaxStarts /\ gFaults \in 0..StateFaults
  BY DEF GTypes
<1>2. /\ gState[h] = gNewest /\ gTarget[h].floor <= gGranted /\ gEpoch[h].generation = gGranted
      /\ gTarget[h].status \in {"none", "activated", "verified"}
      /\ gSource[h].status # "none" \/ gCommand[h].at # "none"
           => gStart[h] = "none" /\ gTarget[h].status \in {"none", "verified"}
      /\ gSource[h].status # "none" => gSource[h].status = "preparing" /\ gSource[h].id = n + 1
      /\ gCommand[h].at \in {"none", "fence", "archive", "bundle"}
      /\ gCommand[h].at # "none" =>
           /\ gCommand[h].id = n + 1 /\ gCommand[h].generation = gGranted
           /\ gSource[h].status = "none" <=> gCommand[h].at = "fence"
      /\ gCommand[h].at = "bundle" => gCommand[h].files = gNewest /\ ~gEpoch[h].alive
      /\ gStart[h] = "checked" => MayGrant(n, 1)
      /\ MayGrant(n, 0) /\ \A g \in Hosts \ {h} : Aside(g, n)
      /\ \A b \in 1..n : Spent(b)
  <2>1. \A b \in 1..n : b < n \/ (b = n /\ n > 0)
    OBVIOUS
  <2> QED
    BY <2>1 DEF Open, Owns
<1>3. Only(h)
  BY StepIsLocal
<1>4. /\ gTarget[h].floor \in Nat /\ gTarget[h].id \in Nat /\ gTarget[h] \in G!Marker
      /\ gSource[h] \in G!Marker /\ gCommand[h] \in Command0
      /\ gEpoch[h] \in [generation : Nat, alive : BOOLEAN] /\ G!Partial = MaxVersion + 1
  BY <1>1, SMTT(30) DEF G!Marker, G!Partial
\* Steps that keep the bundles and the identity of the marker.
<1>5. ASSUME UNCHANGED gBundles, gTarget'[h].id = gTarget[h].id,
             gTarget'[h].status \in {gTarget[h].status, "activated", "verified"},
             gState'[h] = gNewest', gNewest' \in 1..MaxVersion
      PROVE  /\ \A g \in Hosts \ {h} : Aside(g, n)'
             /\ \A b \in 1..n : Spent(b)'
  <2>1. Done(h) => Done(h)'
    BY <1>2, <1>4, <1>5 DEF Done
  <2> QED
    BY <1>2, <1>3, <1>5, <2>1, OthersStay
<1>6. ASSUME GTypes(n)', \A g \in Hosts \ {h} : Aside(g, n)', \A b \in 1..n : Spent(b)',
             gState'[h] = gNewest', gTarget'[h].floor <= gGranted',
             gEpoch'[h].generation = gGranted',
             gTarget'[h].status \in {"none", "activated", "verified"},
             gSource'[h].status # "none" \/ gCommand'[h].at # "none"
               => gStart'[h] = "none" /\ gTarget'[h].status \in {"none", "verified"},
             gSource'[h].status # "none" => gSource'[h].status = "preparing" /\ gSource'[h].id = n + 1,
             gCommand'[h].at \in {"none", "fence", "archive", "bundle"},
             gCommand'[h].at # "none" =>
               /\ gCommand'[h].id = n + 1 /\ gCommand'[h].generation = gGranted'
               /\ gSource'[h].status = "none" <=> gCommand'[h].at = "fence",
             gCommand'[h].at = "bundle" => gCommand'[h].files = gNewest' /\ ~gEpoch'[h].alive,
             gStart'[h] = "checked" => MayGrant(n, 1)', MayGrant(n, 0)'
      PROVE  GTypes(n)' /\ Open(h, n)'
  BY <1>6 DEF Open, Owns
<1>7. CASE G!StartChecks(h)
  <2>1. /\ gStart[h] = "none" /\ gStarts < MaxStarts /\ gCommand[h].at = "none"
        /\ gSource[h].status = "none" /\ gStart' = [gStart EXCEPT ![h] = "checked"]
        /\ gStarts' = gStarts + 1
        /\ UNCHANGED <<gState, gEpoch, gSource, gTarget, gBundles, gCommand, gNewest, gGranted, gFaults>>
    BY <1>7 DEF G!StartChecks, G!StartAllowed, G!Fenced
  <2>2. GTypes(n)'
    BY <1>1, <2>1 DEF GTypes
  <2>3. MayGrant(n, 1)' /\ MayGrant(n, 0)'
    BY <1>1, <1>2, <2>1 DEF MayGrant
  <2> QED
    BY <1>1, <1>2, <1>5, <1>6, <2>1, <2>2, <2>3
<1>8. CASE G!StartWrites(h)
  <2>1. /\ gStart[h] = "checked" /\ gStart' = [gStart EXCEPT ![h] = "written"]
        /\ gEpoch' = [gEpoch EXCEPT ![h] = [generation |-> gGranted + 1, alive |-> TRUE]]
        /\ gGranted' = gGranted + 1
        /\ UNCHANGED <<gState, gSource, gTarget, gBundles, gCommand, gNewest, gStarts, gFaults>>
    <3>1. G!NextGeneration(h) = gGranted + 1
      BY <1>1, <1>2, <1>4 DEF G!NextGeneration
    <3> QED
      BY <1>1, <1>8, <3>1 DEF G!StartWrites, G!Grant
  <2>2. GTypes(n)'
    BY <1>1, <2>1 DEF GTypes
  <2>3. MayGrant(n, 0)'
    BY <1>1, <1>2, <2>1 DEF MayGrant
  <2>4. /\ gEpoch'[h].generation = gGranted' /\ gTarget'[h].floor <= gGranted'
        /\ gStart'[h] = "written" /\ gSource'[h].status = "none" /\ gCommand'[h].at = "none"
    BY <1>1, <1>2, <1>4, <2>1
  <2> QED
    BY <1>1, <1>2, <1>5, <1>6, <2>1, <2>2, <2>3, <2>4
<1>9. CASE G!StartRecords(h)
  <2>1. /\ gStart[h] = "written" /\ gStart' = [gStart EXCEPT ![h] = "none"]
        /\ gTarget' = [gTarget EXCEPT ![h] = G!Activated(gTarget[h])]
        /\ UNCHANGED <<gState, gEpoch, gSource, gBundles, gCommand, gNewest, gGranted, gStarts, gFaults>>
    BY <1>9 DEF G!StartRecords
  <2>2. /\ G!Activated(gTarget[h]) \in G!Marker /\ G!Activated(gTarget[h]).id = gTarget[h].id
        /\ G!Activated(gTarget[h]).floor = gTarget[h].floor
        /\ G!Activated(gTarget[h]).status \in {gTarget[h].status, "activated"}
    BY <1>4 DEF G!Activated, G!Marker
  <2>3. /\ gTarget'[h].id = gTarget[h].id /\ gTarget'[h].floor = gTarget[h].floor
        /\ gTarget'[h].status \in {gTarget[h].status, "activated"} /\ gTarget' \in [Hosts -> G!Marker]
        /\ gSource[h].status = "none" /\ gCommand[h].at = "none"
    BY <1>1, <1>2, <2>1, <2>2
  <2>4. GTypes(n)'
    BY <1>1, <2>1, <2>3 DEF GTypes
  <2>5. MayGrant(n, 0)'
    BY <1>2, <2>1 DEF MayGrant
  <2> QED
    BY <1>1, <1>2, <1>5, <1>6, <2>1, <2>3, <2>4, <2>5
<1>10. CASE G!Work(h)
  <2>1. /\ gEpoch[h].alive /\ gNewest' = gNewest + 1 /\ gNewest < MaxVersion
        /\ gState' = [gState EXCEPT ![h] = gNewest + 1]
        /\ UNCHANGED <<gEpoch, gSource, gTarget, gBundles, gCommand, gStart, gGranted, gStarts, gFaults>>
    BY <1>10 DEF G!Work
  <2>2. GTypes(n)' /\ gNewest' \in 1..MaxVersion
    BY <1>1, <1>4, <2>1 DEF GTypes
  <2>3. MayGrant(n, 0)' /\ (gStart'[h] = "checked" => MayGrant(n, 1)')
    BY <1>2, <2>1 DEF MayGrant
  <2>4. gState'[h] = gNewest' /\ gCommand'[h].at # "bundle"
    BY <1>1, <1>2, <2>1
  <2> QED
    BY <1>1, <1>2, <1>5, <1>6, <2>1, <2>2, <2>3, <2>4
<1>11. CASE G!DaemonEnds(h)
  <2>1. /\ gFaults' = gFaults \/ (gFaults > 0 /\ gFaults' = gFaults - 1)
        /\ gEpoch' = [gEpoch EXCEPT ![h].alive = FALSE]
        /\ gStart' = [gStart EXCEPT ![h] = "none"]
        /\ UNCHANGED <<gState, gSource, gTarget, gBundles, gCommand, gNewest, gGranted, gStarts>>
    BY <1>11 DEF G!DaemonEnds, G!Fault
  <2>2. /\ gEpoch' \in [Hosts -> [generation : Nat, alive : BOOLEAN]]
        /\ gStart' \in [Hosts -> {"none", "checked", "written"}]
    BY <1>1, <2>1
  <2>6. PICK f \in 0..StateFaults : gFaults' = f /\ f <= gFaults
    <3>1. gFaults \in 0..StateFaults /\ StateFaults \in Nat
      BY <1>1, HostsAssumption DEF GTypes
    <3>2. \A k \in 0..StateFaults : k > 0 => k - 1 \in 0..StateFaults /\ k - 1 <= k
      BY <3>1
    <3> QED
      BY <2>1, <3>1, <3>2
  <2>3. GTypes(n)'
    BY <1>1, <2>1, <2>2, <2>6 DEF GTypes
  <2>4. MayGrant(n, 0)'
    <3>1. /\ gGranted \in Nat /\ gStarts \in Nat /\ gFaults \in Nat /\ StateFaults \in Nat
          /\ gGranted + 0 <= n + gStarts + (StateFaults - gFaults)
      BY <1>1, <1>2, HostsAssumption DEF MayGrant, GTypes
    <3>2. gGranted + 0 <= n + gStarts + (StateFaults - f)
      BY <2>6, <3>1
    <3> QED
      BY <2>1, <2>6, <3>2 DEF MayGrant
  <2>5. gEpoch'[h].generation = gGranted' /\ ~gEpoch'[h].alive /\ gStart'[h] = "none"
    BY <1>1, <1>2, <1>4, <2>1
  <2> QED
    BY <1>1, <1>2, <1>5, <1>6, <2>1, <2>3, <2>4, <2>5
<1>12. CASE G!ExportBegins(h)
  <2>1. G!NewId = n + 1
    <3>1. {g \in Hosts : gCommand[g].at \in {"fence", "archive", "bundle"}} = {}
      BY <1>2, <1>12 DEF Aside, G!ExportBegins, G!Free
    <3>2. \A S : G!Cardinality(S) = Cardinality(S)
      BY DEF G!Cardinality, Cardinality
    <3>3. Cardinality({}) = 0 /\ Cardinality(1..n) = n
      BY FS_EmptySet, FS_Interval
    <3>4. DOMAIN gBundles = 1..n
      BY <1>1
    <3>5. G!NewId = 0 + n + 1
      BY <3>1, <3>2, <3>3, <3>4 DEF G!NewId
    <3> QED
      BY <3>5
  <2>2. /\ gCommand[h].at = "none" /\ gStart[h] = "none" /\ gSource[h].status = "none"
        /\ gTarget[h].status \in {"none", "verified"} /\ n + 1 <= MaxBundles
        /\ gCommand' = [gCommand EXCEPT ![h] = [at |-> "fence", id |-> n + 1,
                                                generation |-> gGranted, files |-> 0]]
        /\ UNCHANGED <<gState, gEpoch, gSource, gTarget, gBundles, gStart, gNewest, gGranted, gStarts,
                       gFaults>>
    BY <1>2, <1>12, <2>1 DEF G!ExportBegins, G!Free, G!Fenced
  <2>3. gCommand' \in [Hosts -> Command0]
    BY <1>1, <1>4, <2>2 DEF Command0
  <2>4. GTypes(n)'
    BY <1>1, <2>2, <2>3 DEF GTypes
  <2>5. MayGrant(n, 0)'
    BY <1>2, <2>2 DEF MayGrant
  <2>6. /\ gCommand'[h].at = "fence" /\ gCommand'[h].id = n + 1 /\ gCommand'[h].generation = gGranted
    BY <1>1, <2>2
  <2> QED
    BY <1>1, <1>2, <1>5, <1>6, <2>2, <2>4, <2>5, <2>6
<1>13. CASE G!ExportFences(h)
  <2>1. /\ gCommand[h].at = "fence" /\ gCommand' = [gCommand EXCEPT ![h].at = "archive"]
        /\ gSource' = [gSource EXCEPT ![h] = [status |-> "preparing", id |-> n + 1, floor |-> 0]]
        /\ UNCHANGED <<gState, gEpoch, gTarget, gBundles, gStart, gNewest, gGranted, gStarts, gFaults>>
    BY <1>2, <1>13 DEF G!ExportFences, G!Run
  <2>2. n + 1 \in 0..MaxBundles /\ 0 \in 0..(MaxStarts + MaxBundles + StateFaults)
    BY <1>2, <1>4, <2>1 DEF Command0
  <2>3. gCommand' \in [Hosts -> Command0] /\ gSource' \in [Hosts -> G!Marker]
    BY <1>1, <1>4, <2>1, <2>2 DEF Command0, G!Marker
  <2>4. GTypes(n)'
    BY <1>1, <2>1, <2>3 DEF GTypes
  <2>5. MayGrant(n, 0)'
    BY <1>2, <2>1 DEF MayGrant
  <2>6. /\ gCommand'[h].at = "archive" /\ gCommand'[h].id = n + 1 /\ gCommand'[h].generation = gGranted
        /\ gSource'[h].status = "preparing" /\ gSource'[h].id = n + 1
    BY <1>1, <1>2, <1>4, <2>1 DEF Command0
  <2> QED
    BY <1>1, <1>2, <1>5, <1>6, <2>1, <2>4, <2>5, <2>6
\* A step that ends the command, or the fence, or both.
<1>14. ASSUME UNCHANGED <<gState, gEpoch, gTarget, gBundles, gNewest, gGranted, gStarts, gStart>>,
              gFaults' = gFaults \/ (gFaults > 0 /\ gFaults' = gFaults - 1),
              gSource' = gSource \/ gSource' = [gSource EXCEPT ![h] = G!NoMarker],
              gCommand' = gCommand \/ gCommand' = [gCommand EXCEPT ![h] = G!NoCommand],
              gCommand'[h].at = "none"
       PROVE  GTypes(n)' /\ Open(h, n)'
  <2>1. G!NoMarker \in G!Marker /\ G!NoCommand \in Command0
    BY <1>1, <1>4 DEF G!NoMarker, G!Marker, G!NoCommand, Command0
  <2>2. /\ gSource' \in [Hosts -> G!Marker] /\ gCommand' \in [Hosts -> Command0]
        /\ gFaults' \in 0..StateFaults
    <3>1. gFaults' \in 0..StateFaults
      BY <1>1, <1>14
    <3>2. gSource' \in [Hosts -> G!Marker]
      BY <1>1, <1>14, <2>1
    <3>3. gCommand' \in [Hosts -> Command0]
      BY <1>1, <1>14, <2>1
    <3> QED
      BY <3>1, <3>2, <3>3
  <2>5. GTypes(n)'
    BY <1>1, <1>14, <2>2 DEF GTypes
  <2>3. MayGrant(n, 0)' /\ (gStart[h] = "checked" => MayGrant(n, 1)')
    BY <1>1, <1>2, <1>14 DEF MayGrant
  <2>4. gSource'[h] = gSource[h] \/ gSource'[h].status = "none"
    BY <1>1, <1>14 DEF G!NoMarker
  <2> QED
    BY <1>1, <1>2, <1>5, <1>6, <1>14, <2>3, <2>4, <2>5
<1>15. CASE G!ExportArchives(h)
  <2>1. /\ gCommand[h].at = "archive"
        /\ UNCHANGED <<gState, gEpoch, gTarget, gBundles, gStart, gNewest, gGranted, gStarts, gFaults>>
    BY <1>15 DEF G!ExportArchives
  <2>2. CASE gEpoch[h].alive
    <3>1. /\ gCommand' = [gCommand EXCEPT ![h] = G!NoCommand]
          /\ gSource' = [gSource EXCEPT ![h] = G!NoMarker]
      BY <1>15, <2>2 DEF G!ExportArchives, G!EndCommand
    <3>2. gCommand'[h].at = "none"
      BY <1>1, <3>1 DEF G!NoCommand
    <3> QED
      BY <1>14, <2>1, <3>1, <3>2
  <2>3. CASE ~gEpoch[h].alive
    <3>1. /\ gCommand' = [gCommand EXCEPT ![h].at = "bundle", ![h].files = gNewest]
          /\ UNCHANGED gSource
      BY <1>2, <1>15, <2>3 DEF G!ExportArchives
    <3>2. /\ gCommand' \in [Hosts -> Command0]
          /\ gCommand'[h].at = "bundle" /\ gCommand'[h].id = n + 1
          /\ gCommand'[h].generation = gGranted /\ gCommand'[h].files = gNewest
      <4>1. gNewest \in 0..G!Partial
        BY <1>1, <1>4
      <4> QED
        BY <1>1, <1>2, <1>4, <2>1, <3>1, <4>1 DEF Command0
    <3>3. GTypes(n)'
      BY <1>1, <2>1, <3>1, <3>2 DEF GTypes
    <3>4. MayGrant(n, 0)'
      BY <1>2, <2>1 DEF MayGrant
    <3> QED
      BY <1>1, <1>2, <1>5, <1>6, <2>1, <2>3, <3>1, <3>2, <3>3, <3>4
  <2> QED
    BY <2>2, <2>3
<1>16. CASE G!ExportBundles(h)
  <2>1. /\ gCommand[h].at = "bundle" /\ gCommand' = [gCommand EXCEPT ![h].at = "exported"]
        /\ gBundles' = [b \in 1..n \cup {n + 1} |->
                          IF b = n + 1
                          THEN [floor |-> gGranted, files |-> gNewest, cancelled |-> FALSE,
                                failed |-> FALSE]
                          ELSE gBundles[b]]
        /\ UNCHANGED <<gState, gEpoch, gSource, gTarget, gStart, gNewest, gGranted, gStarts, gFaults>>
    BY <1>1, <1>2, <1>16 DEF G!ExportBundles, G!Run
  <2>2. n + 1 \in 0..MaxBundles /\ n + 1 \in Nat /\ 1..n \cup {n + 1} = 1..(n + 1)
    BY <1>2, <1>4, <2>1 DEF Command0
  <2>3. /\ gBundles' \in [1..(n + 1) -> Bundle0]
        /\ gBundles'[n + 1] = [floor |-> gGranted, files |-> gNewest, cancelled |-> FALSE,
                               failed |-> FALSE]
        /\ \A b \in 1..n : gBundles'[b] = gBundles[b]
    BY <1>1, <2>1, <2>2 DEF Bundle0
  <2>4. gCommand' \in [Hosts -> Command0] /\ gCommand'[h].at = "exported" /\ gCommand'[h].id = n + 1
    BY <1>1, <1>2, <1>4, <2>1 DEF Command0
  <2>5. GTypes(n + 1)'
    <3>1. n + 1 <= MaxBundles
      BY <2>2
    <3> QED
      BY <1>1, <2>1, <2>3, <2>4, <3>1 DEF GTypes
  <2>6. \A g \in Hosts \ {h} : Aside(g, n + 1)'
    BY <1>2, <1>3, <2>1, <2>2, <2>3, OthersStay DEF Done
  <2>7. \A b \in 1..n : Spent(b)'
    BY <1>2, <1>3, <2>1, <2>2, <2>3, OthersStay DEF Done
  <2>8. \A b \in 1..(n + 1) : b < n + 1 => Spent(b)'
    BY <2>7
  <2>9. /\ gStart'[h] = "none" /\ ~gEpoch'[h].alive /\ gSource'[h].status = "preparing"
        /\ gSource'[h].id = n + 1 /\ gTarget'[h].status \in {"none", "verified"}
        /\ gState'[h] = gNewest' /\ gEpoch'[h].generation = gGranted'
        /\ gTarget'[h].floor <= gGranted'
    BY <1>2, <2>1
  <2>10. MayGrant(n + 1, 1)'
    <3>1. gGranted + 0 <= n + gStarts + (StateFaults - gFaults)
      BY <1>2 DEF MayGrant
    <3>2. gGranted + 1 <= (n + 1) + gStarts + (StateFaults - gFaults)
      BY <1>1, <3>1
    <3> QED
      BY <2>1, <3>2 DEF MayGrant
  <2>11. /\ ~gBundles'[n + 1].cancelled /\ ~gBundles'[n + 1].failed
         /\ gBundles'[n + 1].files = gNewest' /\ gBundles'[n + 1].floor = gGranted'
    BY <2>1, <2>3
  <2>12. InBundle(h, n + 1)'
    BY <2>2, <2>8, <2>9, <2>11 DEF InBundle, Owns, Quiet
  <2> QED
    BY <2>4, <2>5, <2>6, <2>9, <2>10, <2>12 DEF Exported
<1>17. CASE G!ExportFails(h)
  <2>1. /\ gFaults > 0 /\ gFaults' = gFaults - 1 /\ gSource' = [gSource EXCEPT ![h] = G!NoMarker]
        /\ gCommand' = [gCommand EXCEPT ![h] = G!NoCommand] /\ gCommand'[h].at = "none"
        /\ UNCHANGED <<gState, gEpoch, gTarget, gBundles, gStart, gNewest, gGranted, gStarts>>
    BY <1>1, <1>2, <1>17 DEF G!ExportFails, G!Fault, G!EndCommand, G!NoCommand
  <2> QED
    BY <1>14, <2>1
<1>18. CASE G!Cancel(h)
  <2>1. /\ gSource' = [gSource EXCEPT ![h] = G!NoMarker] /\ gCommand'[h].at = "none"
        /\ UNCHANGED <<gState, gEpoch, gTarget, gBundles, gCommand, gStart, gNewest, gGranted, gStarts,
                       gFaults>>
    <3>1. gSource[h].id = n + 1 /\ gSource[h].id \notin DOMAIN gBundles
      BY <1>1, <1>2, <1>18 DEF G!Cancel, G!Fenced
    <3> QED
      BY <1>18, <3>1 DEF G!Cancel, G!Free
  <2> QED
    BY <1>14, <2>1
<1>19. CASE G!Interrupted(h)
  <2>1. /\ gFaults > 0 /\ gFaults' = gFaults - 1 /\ gCommand'[h].at = "none"
        /\ gCommand' = [gCommand EXCEPT ![h] = G!NoCommand]
        /\ UNCHANGED <<gState, gEpoch, gSource, gTarget, gBundles, gStart, gNewest, gGranted, gStarts>>
    BY <1>1, <1>19 DEF G!Interrupted, G!Fault, G!EndCommand, G!NoCommand
  <2> QED
    BY <1>14, <2>1
<1>20. CASE G!Verify(h)
  <2>1. /\ gTarget' = [gTarget EXCEPT ![h].status = "verified"]
        /\ UNCHANGED <<gState, gEpoch, gSource, gBundles, gCommand, gStart, gNewest, gGranted, gStarts,
                       gFaults>>
    BY <1>20 DEF G!Verify
  <2>2. /\ gTarget' \in [Hosts -> G!Marker] /\ gTarget'[h].status = "verified"
        /\ gTarget'[h].id = gTarget[h].id /\ gTarget'[h].floor = gTarget[h].floor
    BY <1>1, <1>4, <2>1 DEF G!Marker
  <2>3. GTypes(n)'
    BY <1>1, <2>1, <2>2 DEF GTypes
  <2>4. MayGrant(n, 0)' /\ (gStart[h] = "checked" => MayGrant(n, 1)')
    BY <1>2, <2>1 DEF MayGrant
  <2> QED
    BY <1>1, <1>2, <1>5, <1>6, <2>1, <2>2, <2>3, <2>4
<1>21. /\ ~G!ExportEnds(h) /\ ~G!ImportMarks(h) /\ ~G!ImportWrites(h) /\ ~G!ImportEnds(h)
       /\ ~G!ImportFails(h) /\ ~G!ActivationRecorded(h) /\ ~G!Activate(h)
       /\ \A b : ~G!ImportBegins(h, b)
  <2>1. gCommand[h].at \notin {"exported", "import", "files", "imported", "activated"}
    BY <1>2
  <2>2. gState[h] # 0 /\ gTarget[h].status # "imported"
    BY <1>1, <1>2
  <2>3. \A b : ~G!ImportBegins(h, b)
    BY <2>2 DEF G!ImportBegins
  <2>4. ~G!Activate(h)
    BY <2>2 DEF G!Activate
  <2> QED
    BY <2>1, <2>3, <2>4 DEF G!ExportEnds, G!ImportMarks, G!ImportWrites, G!ImportEnds,
                            G!ImportFails, G!ActivationRecorded
<1> QED
  BY <1>7, <1>8, <1>9, <1>10, <1>11, <1>12, <1>13, <1>15, <1>16, <1>17, <1>18, <1>19, <1>20, <1>21
     DEF HostStep, G!Daemon, G!Export, G!Import

\* A bundle that is dropped, or whose export failed.
LEMMA DroppedBundle ==
    ASSUME NEW n \in Nat, gBundles \in [1..n -> Bundle0], n > 0,
           gBundles' = G!Gone(n) \/ gBundles' = G!Failed(n)
    PROVE  /\ gBundles' \in [1..n -> Bundle0] /\ (gBundles'[n].cancelled \/ gBundles'[n].failed)
           /\ gBundles' = G!Gone(n) => gBundles'[n].cancelled
           /\ \A b \in 1..n : /\ gBundles[b].cancelled => gBundles'[b].cancelled
                              /\ gBundles[b].failed => gBundles'[b].failed
<1>1. n \in 1..n /\ gBundles[n] \in Bundle0
  OBVIOUS
<1>2. CASE gBundles' = G!Gone(n)
  <2>1. gBundles' = [gBundles EXCEPT ![n].cancelled = TRUE]
    BY <1>2 DEF G!Gone
  <2>2. /\ [gBundles[n] EXCEPT !.cancelled = TRUE] \in Bundle0
        /\ [gBundles[n] EXCEPT !.cancelled = TRUE].cancelled
        /\ [gBundles[n] EXCEPT !.cancelled = TRUE].failed = gBundles[n].failed
    BY <1>1 DEF Bundle0
  <2> QED
    BY <1>1, <2>1, <2>2
<1>3. CASE gBundles' = G!Failed(n) /\ gBundles' # G!Gone(n)
  <2>1. gBundles' = [gBundles EXCEPT ![n].failed = TRUE]
    BY <1>3 DEF G!Failed
  <2>2. /\ [gBundles[n] EXCEPT !.failed = TRUE] \in Bundle0
        /\ [gBundles[n] EXCEPT !.failed = TRUE].failed
        /\ [gBundles[n] EXCEPT !.failed = TRUE].cancelled = gBundles[n].cancelled
    BY <1>1 DEF Bundle0
  <2> QED
    BY <1>1, <1>3, <2>1, <2>2
<1> QED
  BY <1>2, <1>3

\* A failure leaves room for a grant.
LEMMA FaultsLeaveRoom ==
    ASSUME NEW n \in Nat, NEW more \in {0, 1}, NEW less \in {0, 1}, less <= more, MayGrant(n, more),
           gStarts \in Nat, gFaults \in Nat, gGranted \in Nat, gFaults' \in Nat, gFaults' <= gFaults,
           UNCHANGED <<gStarts, gGranted>>
    PROVE  MayGrant(n, less)'
<1>1. gGranted + more <= n + gStarts + (StateFaults - gFaults)
  BY DEF MayGrant
<1>2. less \in Nat /\ more \in Nat /\ less <= more /\ StateFaults \in Nat
  BY HostsAssumption
<1>3. \A granted, starts, before, after, faults0 \in Nat :
        /\ granted + more <= n + starts + (faults0 - before) /\ after <= before
        => granted + less <= n + starts + (faults0 - after)
  BY <1>2
<1>4. gGranted + less <= n + gStarts + (StateFaults - gFaults')
  BY <1>1, <1>2, <1>3
<1> QED
  BY <1>4 DEF MayGrant

\* The agent in a bundle stays there, unless the export fails or is cancelled.
LEMMA ExportedStep ==
    ASSUME NEW n \in Nat, GTypes(n), NEW h \in Hosts, Exported(h, n), HostStep(h), Overlap = FALSE
    PROVE  GTypes(n)' /\ (Open(h, n)' \/ Exported(h, n)')
<1> USE HostsAssumption
<1>1. /\ gState \in [Hosts -> 0..G!Partial]
      /\ gEpoch \in [Hosts -> [generation : Nat, alive : BOOLEAN]]
      /\ gSource \in [Hosts -> G!Marker] /\ gTarget \in [Hosts -> G!Marker]
      /\ gBundles \in [1..n -> Bundle0] /\ n <= MaxBundles
      /\ gCommand \in [Hosts -> Command0]
      /\ gStart \in [Hosts -> {"none", "checked", "written"}]
      /\ gNewest \in 1..MaxVersion /\ gGranted \in Nat
      /\ gStarts \in 0..MaxStarts /\ gFaults \in 0..StateFaults
  BY DEF GTypes
<1>2. /\ gState[h] = gNewest /\ gTarget[h].floor <= gGranted /\ gEpoch[h].generation = gGranted
      /\ gTarget[h].status \in {"none", "verified"} /\ n > 0
      /\ gSource[h].status \in {"preparing", "exported"} /\ gSource[h].id = n
      /\ ~gEpoch[h].alive /\ gStart[h] = "none"
      /\ ~gBundles[n].cancelled /\ ~gBundles[n].failed
      /\ gBundles[n].files = gNewest /\ gBundles[n].floor = gGranted
      /\ gCommand[h].at \in {"none", "exported"}
      /\ gCommand[h].at = "exported" => gSource[h].status = "preparing" /\ gCommand[h].id = n
      /\ MayGrant(n, 1) /\ \A g \in Hosts \ {h} : Aside(g, n)
      /\ \A b \in 1..n : b < n => Spent(b)
  BY DEF Exported, InBundle, Owns, Quiet
<1>3. Only(h)
  BY StepIsLocal
<1>4. G!NoMarker \in G!Marker /\ G!NoCommand \in Command0 /\ G!NoCommand.at = "none"
  BY <1>1 DEF G!NoMarker, G!Marker, G!NoCommand, Command0, G!Partial
\* The steps leave the files, the epoch and the marker of the target as they are.
<1>5. ASSUME UNCHANGED <<gState, gEpoch, gTarget, gStart, gNewest, gGranted, gStarts>>,
             \A b \in 1..n : /\ gBundles[b].cancelled => gBundles'[b].cancelled
                             /\ gBundles[b].failed => gBundles'[b].failed
      PROVE  /\ \A g \in Hosts \ {h} : Aside(g, n)'
             /\ \A b \in 1..n : b < n => Spent(b)'
  BY <1>2, <1>3, <1>5, OthersStay DEF Done
<1>6. ASSUME UNCHANGED <<gState, gEpoch, gTarget, gStart, gNewest, gGranted, gStarts, gBundles>>,
             gFaults' \in 0..StateFaults, gFaults' <= gFaults,
             gSource' \in [Hosts -> G!Marker], gSource'[h].status \in {"preparing", "exported"},
             gSource'[h].id = n, gCommand' = [gCommand EXCEPT ![h] = G!NoCommand]
      PROVE  GTypes(n)' /\ Exported(h, n)'
  <2>1. gCommand' \in [Hosts -> Command0] /\ gCommand'[h].at = "none"
    BY <1>1, <1>4, <1>6
  <2>2. GTypes(n)'
    BY <1>1, <1>6, <2>1 DEF GTypes
  <2>3. MayGrant(n, 1)'
    <3>1. gFaults' \in Nat /\ gFaults \in Nat /\ gStarts \in Nat
      BY <1>1, <1>6
    <3> QED
      BY <1>1, <1>2, <1>6, <3>1, FaultsLeaveRoom
  <2>4. InBundle(h, n)'
    BY <1>2, <1>5, <1>6 DEF InBundle, Owns, Quiet
  <2> QED
    BY <1>2, <1>5, <1>6, <2>1, <2>2, <2>3, <2>4 DEF Exported
<1>7. CASE G!ExportEnds(h)
  <2>1. /\ gCommand[h].at = "exported" /\ gSource' = [gSource EXCEPT ![h].status = "exported"]
        /\ gCommand' = [gCommand EXCEPT ![h] = G!NoCommand]
        /\ UNCHANGED <<gState, gEpoch, gTarget, gBundles, gStart, gNewest, gGranted, gStarts, gFaults>>
    BY <1>7 DEF G!ExportEnds, G!EndCommand
  <2>2. gSource[h] \in G!Marker
    BY <1>1
  <2>3. /\ gSource' \in [Hosts -> G!Marker] /\ gSource'[h].status = "exported"
        /\ gSource'[h].id = n
    BY <1>1, <1>2, <2>1, <2>2 DEF G!Marker
  <2> QED
    BY <1>1, <1>6, <2>1, <2>3
<1>8. CASE G!Interrupted(h)
  <2>1. /\ gFaults > 0 /\ gFaults' = gFaults - 1
        /\ gCommand' = [gCommand EXCEPT ![h] = G!NoCommand]
        /\ UNCHANGED <<gState, gEpoch, gSource, gTarget, gBundles, gStart, gNewest, gGranted, gStarts>>
    BY <1>8 DEF G!Interrupted, G!Fault, G!EndCommand
  <2>2. gFaults' \in 0..StateFaults /\ gFaults' <= gFaults
    BY <1>1, <2>1
  <2> QED
    BY <1>1, <1>2, <1>6, <2>1, <2>2
\* The bundle is dropped, or left behind.
<1>9. ASSUME UNCHANGED <<gState, gEpoch, gTarget, gStart, gNewest, gGranted, gStarts>>,
             gFaults' \in 0..StateFaults, gFaults' <= gFaults,
             gBundles' = G!Gone(n) \/ gBundles' = G!Failed(n),
             gSource' = [gSource EXCEPT ![h] = G!NoMarker],
             gCommand' \in [Hosts -> Command0], gCommand'[h].at = "none"
      PROVE  GTypes(n)' /\ Open(h, n)'
  <2>1. /\ gBundles' \in [1..n -> Bundle0] /\ (gBundles'[n].cancelled \/ gBundles'[n].failed)
        /\ \A b \in 1..n : /\ gBundles[b].cancelled => gBundles'[b].cancelled
                           /\ gBundles[b].failed => gBundles'[b].failed
    BY <1>1, <1>2, <1>9, DroppedBundle
  <2>2. gSource' \in [Hosts -> G!Marker] /\ gSource'[h].status = "none"
    BY <1>1, <1>4, <1>9 DEF G!NoMarker
  <2>3. GTypes(n)'
    BY <1>1, <1>9, <2>1, <2>2 DEF GTypes
  <2>4. MayGrant(n, 0)'
    <3>1. gFaults' \in Nat /\ gFaults \in Nat /\ gStarts \in Nat
      BY <1>1, <1>9
    <3> QED
      BY <1>1, <1>2, <1>9, <3>1, FaultsLeaveRoom
  <2>5. Spent(n)'
    BY <2>1 DEF Spent
  <2> QED
    BY <1>2, <1>5, <1>9, <2>1, <2>2, <2>3, <2>4, <2>5 DEF Open, Owns
<1>10. CASE G!ExportFails(h)
  <2>1. /\ gCommand[h].at = "exported" /\ gFaults > 0 /\ gFaults' = gFaults - 1
        /\ gSource' = [gSource EXCEPT ![h] = G!NoMarker]
        /\ gCommand' = [gCommand EXCEPT ![h] = G!NoCommand]
        /\ gBundles' = G!Gone(n) \/ gBundles' = G!Failed(n)
        /\ UNCHANGED <<gState, gEpoch, gTarget, gStart, gNewest, gGranted, gStarts>>
    BY <1>2, <1>10 DEF G!ExportFails, G!Fault, G!EndCommand
  <2>2. gFaults' \in 0..StateFaults /\ gFaults' <= gFaults
    BY <1>1, <2>1
  <2>3. gCommand' \in [Hosts -> Command0] /\ gCommand'[h].at = "none"
    BY <1>1, <1>4, <2>1
  <2> QED
    BY <1>9, <2>1, <2>2, <2>3
<1>11. CASE G!Cancel(h)
  <2>1. /\ gCommand[h].at = "none" /\ gSource' = [gSource EXCEPT ![h] = G!NoMarker]
        /\ gBundles' = G!Gone(n)
        /\ UNCHANGED <<gState, gEpoch, gTarget, gCommand, gStart, gNewest, gGranted, gStarts, gFaults>>
    <3>1. gSource[h].id \in DOMAIN gBundles
      BY <1>1, <1>2
    <3> QED
      BY <1>2, <1>11, <3>1 DEF G!Cancel, G!Free
  <2> QED
    BY <1>1, <1>9, <2>1
<1>12. /\ ~G!StartChecks(h) /\ ~G!ExportBegins(h) /\ ~G!Activate(h) /\ ~G!Verify(h)
       /\ \A b : ~G!ImportBegins(h, b)
  BY <1>2 DEF G!StartChecks, G!StartAllowed, G!ExportBegins, G!Activate, G!Verify, G!ImportBegins,
              G!Fenced
<1>13. ~G!StartWrites(h) /\ ~G!StartRecords(h) /\ ~G!Work(h) /\ ~G!DaemonEnds(h)
  BY <1>2 DEF G!StartWrites, G!StartRecords, G!Work, G!DaemonEnds
<1>14. /\ ~G!ExportFences(h) /\ ~G!ExportArchives(h) /\ ~G!ExportBundles(h) /\ ~G!ImportMarks(h)
       /\ ~G!ImportWrites(h) /\ ~G!ImportEnds(h) /\ ~G!ImportFails(h) /\ ~G!ActivationRecorded(h)
  BY <1>2 DEF G!ExportFences, G!ExportArchives, G!ExportBundles, G!ImportMarks, G!ImportWrites,
              G!ImportEnds, G!ImportFails, G!ActivationRecorded
<1> QED
  BY <1>7, <1>8, <1>10, <1>11, <1>12, <1>13, <1>14 DEF HostStep, G!Daemon, G!Export, G!Import

\* An import moves the agent from its bundle.
LEMMA ImportStep ==
    ASSUME NEW n \in Nat, GTypes(n), NEW h \in Hosts, Exported(h, n), NEW g \in Hosts \ {h},
           HostStep(g), Overlap = FALSE, Leftovers = FALSE
    PROVE  GTypes(n)' /\ Moving(h, g, n)'
<1> USE HostsAssumption
<1>1. /\ gState \in [Hosts -> 0..G!Partial] /\ gCommand \in [Hosts -> Command0]
      /\ gEpoch \in [Hosts -> [generation : Nat, alive : BOOLEAN]] /\ n <= MaxBundles
      /\ InBundle(h, n) /\ gEpoch[h].generation = gGranted /\ MayGrant(n, 1)
      /\ gCommand[h].at = "exported" => gCommand[h].id = n
      /\ gCommand[h].at \in {"none", "exported"}
      /\ \A e \in Hosts \ {h} : Aside(e, n)
      /\ \A b \in 1..n : b < n => Spent(b)
  BY DEF Exported, GTypes, InBundle, Owns
<1>2. PICK b \in 1..n : G!ImportBegins(g, b) /\ Idle(g)
  BY <1>1, AsideWaits
<1>3. b = n
  <2>1. /\ ~gBundles[b].cancelled /\ ~gBundles[b].failed
        /\ \A t \in Hosts : gTarget[t].id # b
    BY <1>2 DEF G!ImportBegins
  <2>2. ~(b < n)
    BY <1>1, <2>1 DEF Spent
  <2> QED
    BY <2>2
<1>4. /\ gCommand' = [gCommand EXCEPT ![g] = [at |-> "import", id |-> n, generation |-> 0, files |-> 0]]
      /\ UNCHANGED <<gState, gEpoch, gSource, gTarget, gBundles, gStart, gNewest, gGranted, gStarts,
                     gFaults>>
      /\ gCommand[h].at = "none"
  BY <1>1, <1>2, <1>3 DEF G!ImportBegins
<1>5. /\ gCommand' \in [Hosts -> Command0] /\ gCommand'[g].at = "import" /\ gCommand'[g].id = n
      /\ gCommand'[h].at = "none"
  <2>1. n \in 0..MaxBundles /\ 0 \in 0..G!Partial
    BY <1>1 DEF G!Partial
  <2> QED
    BY <1>1, <1>4, <2>1 DEF Command0
<1>6. GTypes(n)'
  BY <1>4, <1>5 DEF GTypes
<1>7. /\ \A e \in Hosts \ {h, g} : Aside(e, n)'
      /\ \A c \in 1..n : c < n => Spent(c)'
  BY <1>1, <1>4, StepIsLocal, OthersStay DEF Done
<1>8. InBundle(h, n)'
  BY <1>1, <1>4, <1>7 DEF InBundle, Owns, Quiet
<1>9. Importing(g, n)' /\ gSource'[g].status = "none" /\ Quiet(g)'
  BY <1>1, <1>2, <1>4, <1>5 DEF Importing, Idle, Quiet, Aside
<1>10. MayGrant(n, 1)' /\ gGranted' = gBundles'[n].floor
  BY <1>1, <1>4 DEF MayGrant, InBundle
<1> QED
  BY <1>5, <1>6, <1>7, <1>8, <1>9, <1>10 DEF Moving

\* While the agent moves, no other host has a part in it.
LEMMA NobodyElseMoves ==
    ASSUME NEW n \in Nat, GTypes(n), NEW h \in Hosts, NEW p \in Hosts, Moving(h, p, n),
           NEW g \in Hosts \ {h, p}, Leftovers = FALSE
    PROVE  ~HostStep(g)
<1> SUFFICES ASSUME HostStep(g) PROVE FALSE
  OBVIOUS
<1>1. PICK b \in 1..n : G!ImportBegins(g, b)
  BY AsideWaits DEF Moving
<1>2. /\ ~gBundles[b].cancelled /\ ~gBundles[b].failed /\ \A t \in Hosts : gTarget[t].id # b
      /\ \A t \in Hosts : gCommand[t].at = "import" => gCommand[t].id # b
  BY <1>1 DEF G!ImportBegins
<1>3. ~(b < n)
  BY <1>2 DEF Moving, InBundle, Owns, Spent
<1>4. b = n
  BY <1>3
<1> QED
  BY <1>2, <1>4 DEF Moving, Importing, Imported

\* At the source the move can be cancelled, as long as the import stopped halfway.
LEMMA SourceStep ==
    ASSUME NEW n \in Nat, GTypes(n), NEW h \in Hosts, NEW p \in Hosts, Moving(h, p, n), HostStep(h),
           Overlap = FALSE
    PROVE  GTypes(n)' /\ Open(h, n)'
<1> USE HostsAssumption
<1>1. /\ gSource \in [Hosts -> G!Marker] /\ gBundles \in [1..n -> Bundle0]
      /\ gNewest \in 1..MaxVersion /\ gGranted \in Nat /\ gStarts \in Nat /\ gFaults \in Nat
      /\ G!Partial = MaxVersion + 1 /\ G!NoMarker \in G!Marker
  <2>1. 0 \in 0..(MaxStarts + MaxBundles + StateFaults) /\ 0 \in 0..MaxBundles
    OBVIOUS
  <2>2. G!NoMarker \in G!Marker
    BY <2>1 DEF G!NoMarker, G!Marker
  <2> QED
    BY <2>2 DEF GTypes, G!Partial
<1>2. /\ gState[h] = gNewest /\ gTarget[h].floor <= gEpoch[h].generation
      /\ gTarget[h].status \in {"none", "verified"} /\ n > 0
      /\ gSource[h].status \in {"preparing", "exported"} /\ gSource[h].id = n
      /\ ~gEpoch[h].alive /\ gStart[h] = "none"
      /\ gBundles[n].floor = gEpoch[h].generation
      /\ gCommand[h].at = "none" /\ p # h
      /\ \A b \in 1..n : b < n => Spent(b)
      /\ \A g \in Hosts \ {h, p} : Aside(g, n)
  BY DEF Moving, InBundle, Owns, Quiet
<1>3. Only(h)
  BY StepIsLocal
<1>4. G!Cancel(h)
  <2>1. /\ ~G!StartChecks(h) /\ ~G!ExportBegins(h) /\ ~G!Activate(h) /\ ~G!Verify(h)
        /\ \A b : ~G!ImportBegins(h, b)
    BY <1>2 DEF G!StartChecks, G!StartAllowed, G!ExportBegins, G!Activate, G!Verify,
                G!ImportBegins, G!Fenced
  <2>2. ~G!StartWrites(h) /\ ~G!StartRecords(h) /\ ~G!Work(h) /\ ~G!DaemonEnds(h)
    BY <1>2 DEF G!StartWrites, G!StartRecords, G!Work, G!DaemonEnds
  <2>3. /\ ~G!ExportFences(h) /\ ~G!ExportArchives(h) /\ ~G!ExportBundles(h) /\ ~G!ExportEnds(h)
        /\ ~G!ExportFails(h) /\ ~G!ImportMarks(h) /\ ~G!ImportWrites(h) /\ ~G!ImportEnds(h)
        /\ ~G!ImportFails(h) /\ ~G!ActivationRecorded(h) /\ ~G!Interrupted(h)
    BY <1>2 DEF G!ExportFences, G!ExportArchives, G!ExportBundles, G!ExportEnds, G!ExportFails,
                G!ImportMarks, G!ImportWrites, G!ImportEnds, G!ImportFails, G!ActivationRecorded,
                G!Interrupted
  <2> QED
    BY <2>1, <2>2, <2>3 DEF HostStep, G!Daemon, G!Export, G!Import
<1>5. /\ gSource' = [gSource EXCEPT ![h] = G!NoMarker] /\ gBundles' = G!Gone(n)
      /\ UNCHANGED <<gState, gEpoch, gTarget, gCommand, gStart, gNewest, gGranted, gStarts, gFaults>>
      /\ gTarget[p].id = n => gTarget[p].status = "none" \/ gState[p] = G!Partial
      /\ gCommand[p].at \in {"import", "files"} => gCommand[p].id # n
  <2>1. gSource[h].id \in DOMAIN gBundles
    BY <1>1, <1>2
  <2> QED
    BY <1>2, <1>4, <2>1 DEF G!Cancel
<1>6. /\ gGranted = gEpoch[h].generation /\ gCommand[p].at = "none" /\ gState[p] = G!Partial
      /\ gTarget[p].status = "importing" /\ gTarget[p].id = n /\ gSource[p].status = "none"
      /\ Quiet(p) /\ MayGrant(n, 1)
  <2>1. gCommand[p].at \notin {"import", "files"}
    BY <1>5 DEF Moving
  <2>2. ~Imported(p, n)
    BY <1>1, <1>5 DEF Imported
  <2>3. Importing(p, n) /\ gGranted = gBundles[n].floor
    BY <2>2 DEF Moving
  <2>4. /\ gTarget[p].status = "importing" /\ gTarget[p].id = n
        /\ gCommand[p].at = "none" \/ gState[p] = gNewest
    BY <2>1, <2>3 DEF Importing
  <2>5. gState[p] = G!Partial /\ gCommand[p].at = "none"
    BY <1>1, <1>5, <2>4
  <2> QED
    BY <1>2, <2>3, <2>4, <2>5 DEF Moving
<1>7. /\ gBundles' \in [1..n -> Bundle0] /\ gBundles'[n].cancelled
      /\ \A b \in 1..n : /\ gBundles[b].cancelled => gBundles'[b].cancelled
                         /\ gBundles[b].failed => gBundles'[b].failed
  BY <1>1, <1>2, <1>5, DroppedBundle
<1>8. /\ \A g \in Hosts \ {h, p} : Aside(g, n)'
      /\ \A b \in 1..n : b < n => Spent(b)'
  BY <1>2, <1>3, <1>5, <1>7, OthersStay DEF Done
<1>9. Aside(p, n)'
  BY <1>2, <1>5, <1>6, <1>7 DEF Aside, Dead, Quiet
<1>10. gSource' \in [Hosts -> G!Marker] /\ gSource'[h].status = "none"
  BY <1>1, <1>5 DEF G!NoMarker
<1>11. GTypes(n)'
  BY <1>5, <1>7, <1>10 DEF GTypes
<1>12. MayGrant(n, 0)'
  BY <1>1, <1>5, <1>6, FaultsLeaveRoom
<1>13. Spent(n)'
  BY <1>7 DEF Spent
<1>14. \A g \in Hosts \ {h} : Aside(g, n)'
  BY <1>8, <1>9
<1>15. Owns(h, n)'
  BY <1>2, <1>5, <1>8 DEF Owns
<1> QED
  BY <1>2, <1>5, <1>6, <1>10, <1>11, <1>12, <1>13, <1>14, <1>15 DEF Open

\* What a step of the target leaves as it was.
LEMMA TargetKeeps ==
    ASSUME NEW n \in Nat, GTypes(n), NEW h \in Hosts, NEW p \in Hosts, Moving(h, p, n), Only(p),
           UNCHANGED <<gSource, gBundles, gStart, gNewest, gStarts>>, ~gEpoch'[p].alive,
           Done(p) => Done(p)' /\ gTarget'[p].id = gTarget[p].id
    PROVE  /\ InBundle(h, n)' /\ gCommand'[h].at = "none" /\ gSource'[p].status = "none" /\ Quiet(p)'
           /\ \A g \in Hosts \ {h, p} : Aside(g, n)'
           /\ gEpoch'[h].generation = gBundles[n].floor
           /\ \A b \in 1..n : b < n => Spent(b)'
<1>1. /\ InBundle(h, n) /\ gCommand[h].at = "none" /\ gSource[p].status = "none" /\ Quiet(p)
      /\ p # h /\ n > 0 /\ \A g \in Hosts \ {h, p} : Aside(g, n)
      /\ \A b \in 1..n : b < n => Spent(b)
      /\ gEpoch[h].generation = gBundles[n].floor
      /\ gTarget[p].id \in {0, n}
  BY DEF Moving, InBundle, Owns, Importing, Imported, G!NoMarker
<1>2. /\ gState'[h] = gState[h] /\ gEpoch'[h] = gEpoch[h] /\ gTarget'[h] = gTarget[h]
      /\ gCommand'[h] = gCommand[h]
  BY <1>1 DEF Only
<1>3. \A b \in 1..n : b < n => gTarget[p].id # b
  BY <1>1
<1>4. \A b \in 1..n : /\ gBundles[b].cancelled => gBundles'[b].cancelled
                      /\ gBundles[b].failed => gBundles'[b].failed
  OBVIOUS
<1>5. /\ \A g \in Hosts \ {h, p} : Aside(g, n)'
      /\ \A b \in 1..n : b < n => Spent(b)'
  BY <1>1, <1>3, <1>4, OthersStay
<1> QED
  BY <1>1, <1>2, <1>5 DEF InBundle, Owns, Quiet

LEMMA TargetStep ==
    ASSUME NEW n \in Nat, GTypes(n), NEW h \in Hosts, NEW p \in Hosts, Moving(h, p, n), HostStep(p),
           Overlap = FALSE
    PROVE  GTypes(n)' /\ (Open(p, n)' \/ Exported(h, n)' \/ Moving(h, p, n)')
<1> USE HostsAssumption
<1>1. /\ gState \in [Hosts -> 0..G!Partial]
      /\ gEpoch \in [Hosts -> [generation : Nat, alive : BOOLEAN]]
      /\ gSource \in [Hosts -> G!Marker] /\ gTarget \in [Hosts -> G!Marker]
      /\ gBundles \in [1..n -> Bundle0] /\ n <= MaxBundles
      /\ gCommand \in [Hosts -> Command0]
      /\ gStart \in [Hosts -> {"none", "checked", "written"}]
      /\ gNewest \in 1..MaxVersion /\ gGranted \in Nat
      /\ gStarts \in 0..MaxStarts /\ gFaults \in 0..StateFaults
  BY DEF GTypes
<1>2. /\ gTarget[p] \in G!Marker /\ gCommand[p] \in Command0 /\ G!Partial = MaxVersion + 1
      /\ gEpoch[p] \in [generation : Nat, alive : BOOLEAN] /\ gStarts \in Nat /\ gFaults \in Nat
      /\ n \in 1..n /\ gBundles[n].floor \in Nat /\ gBundles[n].files = gNewest /\ p # h /\ n > 0
      /\ gNewest # 0 /\ gNewest # G!Partial
  <2>1. n > 0 /\ gBundles[n].files = gNewest /\ p # h
    BY DEF Moving, InBundle
  <2>2. n \in 1..n /\ gBundles[n] \in Bundle0
    BY <1>1, <2>1
  <2> QED
    BY <1>1, <2>1, <2>2 DEF Bundle0, G!Partial
<1>3. /\ ~gEpoch[p].alive /\ gStart[p] = "none" /\ gSource[p].status = "none"
      /\ gCommand[p].at \in {"import", "files", "imported"} => gCommand[p].id = n
      /\ MayGrant(n, IF gCommand[p].at = "activated" THEN 0 ELSE 1)
  BY DEF Moving, Quiet
<1>4. Only(p) /\ gCommand[p].at \in {"none", "import", "files", "imported", "activated"}
  BY StepIsLocal DEF Moving, Importing, Imported
<1>5. G!NoMarker \in G!Marker /\ G!NoCommand \in Command0 /\ G!NoCommand.at = "none"
  <2>1. 0 \in 0..(MaxStarts + MaxBundles + StateFaults) /\ 0 \in 0..MaxBundles /\ 0 \in 0..G!Partial
    BY <1>2
  <2> QED
    BY <2>1 DEF G!NoMarker, G!Marker, G!NoCommand, Command0
<1>6. Importing(p, n) => /\ gGranted = gBundles[n].floor /\ ~Done(p) /\ MayGrant(n, 1)
                         /\ gEpoch[p].generation = 0
  <2> SUFFICES ASSUME Importing(p, n)
               PROVE  /\ gGranted = gBundles[n].floor /\ ~Done(p) /\ MayGrant(n, 1)
                      /\ gEpoch[p].generation = 0
    OBVIOUS
  <2>1. /\ gTarget[p].status \in {"none", "importing"} /\ gCommand[p].at # "activated"
        /\ gEpoch[p].generation = 0
    BY DEF Importing, G!NoMarker
  <2>2. ~Imported(p, n)
    BY <2>1 DEF Imported
  <2> QED
    BY <1>3, <2>1, <2>2 DEF Moving, Done
<1>7. Importing(p, n) \/ Imported(p, n)
  BY DEF Moving
\* The target is as it was before the import.
<1>8. ASSUME GTypes(n)', Importing(p, n), gState'[p] = 0, gTarget'[p] = G!NoMarker,
             gCommand'[p].at = "none", gFaults' \in Nat, gFaults' <= gFaults,
             UNCHANGED <<gEpoch, gSource, gBundles, gStart, gNewest, gGranted, gStarts>>
      PROVE  Exported(h, n)'
  <2>1. /\ InBundle(h, n)' /\ gCommand'[h].at = "none" /\ gSource'[p].status = "none" /\ Quiet(p)'
        /\ \A g \in Hosts \ {h, p} : Aside(g, n)'
        /\ gEpoch'[h].generation = gBundles[n].floor
    BY <1>3, <1>4, <1>6, <1>8, TargetKeeps
  <2>2. Aside(p, n)'
    BY <1>6, <1>8, <2>1 DEF Aside, Idle
  <2>3. MayGrant(n, 1)'
    BY <1>1, <1>2, <1>6, <1>8, FaultsLeaveRoom
  <2>4. \A g \in Hosts \ {h} : Aside(g, n)'
    BY <2>1, <2>2
  <2> QED
    BY <1>6, <1>8, <2>1, <2>3, <2>4 DEF Exported
\* The target goes on.
<1>9. ASSUME GTypes(n)', Imported(p, n), gEpoch[p].generation = gGranted, MayGrant(n, 0)',
             gGranted > gBundles[n].floor,
             gTarget'[p].status \in {"activated", "verified"}, gTarget'[p].id = n,
             gTarget'[p].floor = gTarget[p].floor, gCommand'[p].at = "none",
             UNCHANGED <<gState, gEpoch, gSource, gBundles, gStart, gNewest, gGranted, gStarts>>
      PROVE  Open(p, n)'
  <2>1. /\ gState[p] = gNewest /\ gTarget[p].floor <= gGranted /\ gTarget[p].id = n
    BY <1>1, <1>2, <1>9 DEF Imported
  <2>2. Done(p)'
    BY <1>2, <1>9, <2>1 DEF Done
  <2>3. /\ InBundle(h, n)' /\ gCommand'[h].at = "none" /\ gSource'[p].status = "none" /\ Quiet(p)'
        /\ \A g \in Hosts \ {h, p} : Aside(g, n)'
        /\ \A b \in 1..n : b < n => Spent(b)'
    BY <1>3, <1>4, <1>9, <2>1, <2>2, TargetKeeps
  <2>4. Taken(n)'
    BY <1>9, <2>2 DEF Taken
  <2>5. Aside(h, n)'
    BY <1>2, <2>3, <2>4 DEF Aside, Left, InBundle, Quiet
  <2>6. \A g \in Hosts \ {p} : Aside(g, n)'
    BY <2>3, <2>5
  <2>7. Spent(n)' /\ Owns(p, n)'
    BY <1>9, <2>1, <2>3 DEF Spent, Owns
  <2> QED
    BY <1>3, <1>9, <2>3, <2>6, <2>7 DEF Open
\* The import goes on.
<1>10. ASSUME GTypes(n)', Importing(p, n), Importing(p, n)' \/ Imported(p, n)',
              gCommand'[p].at \in {"import", "files", "imported"} => gCommand'[p].id = n,
              gCommand'[p].at # "activated", gFaults' \in Nat, gFaults' <= gFaults,
              UNCHANGED <<gEpoch, gSource, gBundles, gStart, gNewest, gGranted, gStarts>>
       PROVE  Moving(h, p, n)'
  <2>1. /\ InBundle(h, n)' /\ gCommand'[h].at = "none" /\ gSource'[p].status = "none" /\ Quiet(p)'
        /\ \A g \in Hosts \ {h, p} : Aside(g, n)'
    BY <1>3, <1>4, <1>6, <1>10, TargetKeeps
  <2>2. MayGrant(n, 1)'
    BY <1>1, <1>2, <1>6, <1>10, FaultsLeaveRoom
  <2>3. gGranted' = gBundles'[n].floor
    BY <1>6, <1>10
  <2> QED
    BY <1>2, <1>10, <2>1, <2>2, <2>3 DEF Moving
<1>11. CASE G!ImportMarks(p)
  <2>1. /\ gCommand[p].at = "import" /\ gCommand[p].id = n
        /\ gTarget' = [gTarget EXCEPT ![p] = [status |-> "importing", id |-> n,
                                              floor |-> gBundles[n].floor]]
        /\ gCommand' = [gCommand EXCEPT ![p].at = "files"]
        /\ UNCHANGED <<gState, gEpoch, gSource, gBundles, gStart, gNewest, gGranted, gStarts, gFaults>>
    BY <1>3, <1>11 DEF G!ImportMarks, G!Run
  <2>2. Importing(p, n) /\ gState[p] = 0
    BY <1>7, <2>1 DEF Importing, Imported
  <2>3. gBundles[n].floor \in 0..(MaxStarts + MaxBundles + StateFaults) /\ n \in 0..MaxBundles
    <3>1. gGranted + 1 <= n + gStarts + (StateFaults - gFaults)
      BY <1>6, <2>2 DEF MayGrant
    <3> QED
      BY <1>1, <1>6, <2>2, <3>1
  <2>4. gTarget' \in [Hosts -> G!Marker] /\ gCommand' \in [Hosts -> Command0]
    BY <1>1, <1>2, <2>1, <2>3 DEF G!Marker, Command0
  <2>5. /\ gTarget'[p].status = "importing" /\ gTarget'[p].id = n
        /\ gTarget'[p].floor = gBundles[n].floor /\ gCommand'[p].at = "files"
        /\ gCommand'[p].id = n
    BY <1>1, <1>2, <2>1 DEF Command0
  <2>6. GTypes(n)'
    BY <1>1, <2>1, <2>4 DEF GTypes
  <2>7. Importing(p, n)'
    BY <1>6, <2>1, <2>2, <2>5 DEF Importing
  <2> QED
    BY <1>2, <1>10, <2>1, <2>2, <2>5, <2>6, <2>7
<1>12. CASE G!ImportWrites(p)
  <2>1. /\ gCommand[p].at = "files" /\ gCommand[p].id = n
        /\ \/ gState[p] = 0 /\ gState' = [gState EXCEPT ![p] = G!Partial] /\ UNCHANGED gCommand
           \/ /\ gState[p] = G!Partial /\ gState' = [gState EXCEPT ![p] = gNewest]
              /\ gCommand' = [gCommand EXCEPT ![p].at = "imported"]
        /\ UNCHANGED <<gEpoch, gSource, gTarget, gBundles, gStart, gNewest, gGranted, gStarts, gFaults>>
    BY <1>2, <1>3, <1>12 DEF G!ImportWrites, G!Run
  <2>2. /\ Importing(p, n) /\ gTarget[p].status = "importing" /\ gTarget[p].id = n
        /\ gTarget[p].floor = gBundles[n].floor
    BY <1>7, <2>1 DEF Importing, Imported
  <2>3. gState' \in [Hosts -> 0..G!Partial]
    <3>1. G!Partial \in 0..G!Partial /\ gNewest \in 0..G!Partial
      BY <1>1, <1>2
    <3>2. gState' = [gState EXCEPT ![p] = G!Partial] \/ gState' = [gState EXCEPT ![p] = gNewest]
      BY <2>1
    <3> QED
      BY <1>1, <3>1, <3>2
  <2>4. gCommand' \in [Hosts -> Command0] /\ gCommand'[p].id = n
    <3>1. gCommand' = gCommand \/ gCommand' = [gCommand EXCEPT ![p].at = "imported"]
      BY <2>1
    <3>2. CASE gCommand' = gCommand
      BY <1>1, <2>1, <3>2
    <3>3. CASE gCommand' = [gCommand EXCEPT ![p].at = "imported"]
      BY <1>1, <1>2, <2>1, <3>3 DEF Command0
    <3> QED
      BY <3>1, <3>2, <3>3
  <2>5. GTypes(n)'
    BY <1>1, <2>1, <2>3, <2>4 DEF GTypes
  <2>6. \/ gCommand'[p].at = "files" /\ gState'[p] = G!Partial
        \/ gCommand'[p].at = "imported" /\ gState'[p] = gNewest
    <3>1. CASE gState' = [gState EXCEPT ![p] = G!Partial] /\ UNCHANGED gCommand
      BY <1>1, <2>1, <3>1
    <3>2. CASE /\ gState' = [gState EXCEPT ![p] = gNewest]
               /\ gCommand' = [gCommand EXCEPT ![p].at = "imported"]
      BY <1>1, <1>2, <3>2 DEF Command0
    <3> QED
      BY <2>1, <3>1, <3>2
  <2>7. Importing(p, n)'
    BY <1>6, <2>1, <2>2, <2>6 DEF Importing
  <2> QED
    BY <1>2, <1>10, <2>1, <2>2, <2>4, <2>5, <2>6, <2>7
<1>13. CASE G!ImportEnds(p)
  <2>1. /\ gCommand[p].at = "imported" /\ gTarget' = [gTarget EXCEPT ![p].status = "imported"]
        /\ gCommand' = [gCommand EXCEPT ![p] = G!NoCommand]
        /\ UNCHANGED <<gState, gEpoch, gSource, gBundles, gStart, gNewest, gGranted, gStarts, gFaults>>
    BY <1>13 DEF G!ImportEnds, G!EndCommand
  <2>2. /\ Importing(p, n) /\ gTarget[p].id = n /\ gState[p] = gNewest
        /\ gTarget[p].floor = gBundles[n].floor
    BY <1>7, <2>1 DEF Importing, Imported, G!NoMarker
  <2>3. /\ gTarget' \in [Hosts -> G!Marker] /\ gTarget'[p].status = "imported"
        /\ gTarget'[p].id = n /\ gTarget'[p].floor = gBundles[n].floor
    BY <1>1, <1>2, <2>1, <2>2 DEF G!Marker
  <2>4. gCommand' \in [Hosts -> Command0] /\ gCommand'[p].at = "none"
    BY <1>1, <1>5, <2>1
  <2>5. GTypes(n)'
    BY <1>1, <2>1, <2>3, <2>4 DEF GTypes
  <2>6. Imported(p, n)'
    BY <1>6, <2>1, <2>2, <2>3, <2>4 DEF Imported
  <2> QED
    BY <1>2, <1>10, <2>1, <2>2, <2>4, <2>5, <2>6
<1>14. CASE G!ImportFails(p)
  <2>1. /\ gCommand[p].at \in {"files", "imported"} /\ gFaults > 0 /\ gFaults' = gFaults - 1
        /\ gState' = [gState EXCEPT ![p] = 0] /\ gTarget' = [gTarget EXCEPT ![p] = G!NoMarker]
        /\ gCommand' = [gCommand EXCEPT ![p] = G!NoCommand]
        /\ UNCHANGED <<gEpoch, gSource, gBundles, gStart, gNewest, gGranted, gStarts>>
    BY <1>14 DEF G!ImportFails, G!EndCommand, G!Fault
  <2>2. Importing(p, n)
    BY <1>7, <2>1 DEF Imported
  <2>3. gFaults' \in 0..StateFaults /\ gFaults' \in Nat /\ gFaults' <= gFaults
    BY <1>1, <2>1
  <2>4. /\ gState' \in [Hosts -> 0..G!Partial] /\ gTarget' \in [Hosts -> G!Marker]
        /\ gCommand' \in [Hosts -> Command0]
        /\ gState'[p] = 0 /\ gTarget'[p] = G!NoMarker /\ gCommand'[p].at = "none"
    BY <1>1, <1>2, <1>5, <2>1
  <2>5. GTypes(n)'
    BY <1>1, <2>1, <2>3, <2>4 DEF GTypes
  <2> QED
    BY <1>8, <2>1, <2>2, <2>3, <2>4, <2>5
<1>15. CASE G!Interrupted(p)
  <2>1. /\ gCommand[p].at # "none" /\ gFaults > 0 /\ gFaults' = gFaults - 1
        /\ gCommand' = [gCommand EXCEPT ![p] = G!NoCommand]
        /\ UNCHANGED <<gState, gEpoch, gSource, gTarget, gBundles, gStart, gNewest, gGranted, gStarts>>
    BY <1>15 DEF G!Interrupted, G!EndCommand, G!Fault
  <2>2. gFaults' \in 0..StateFaults /\ gFaults' \in Nat /\ gFaults' <= gFaults
    BY <1>1, <2>1
  <2>3. gCommand' \in [Hosts -> Command0] /\ gCommand'[p].at = "none"
    BY <1>1, <1>5, <2>1
  <2>4. GTypes(n)'
    BY <1>1, <2>1, <2>2, <2>3 DEF GTypes
  <2>5. CASE gCommand[p].at = "import"
    <3>1. Importing(p, n) /\ gState[p] = 0 /\ gTarget[p] = G!NoMarker
      BY <1>7, <2>5 DEF Importing, Imported
    <3> QED
      BY <1>8, <2>1, <2>2, <2>3, <2>4, <3>1
  <2>6. CASE gCommand[p].at \in {"files", "imported"}
    <3>1. /\ Importing(p, n) /\ gState[p] \in {0, G!Partial, gNewest}
          /\ gTarget[p].status = "importing" /\ gTarget[p].id = n
          /\ gTarget[p].floor = gBundles[n].floor
      BY <1>7, <2>6 DEF Importing, Imported
    <3>2. Importing(p, n)'
      BY <1>6, <2>1, <2>3, <3>1 DEF Importing
    <3> QED
      BY <1>10, <2>1, <2>2, <2>3, <2>4, <3>1, <3>2
  <2>7. CASE gCommand[p].at = "activated"
    <3>1. Imported(p, n) /\ gEpoch[p].generation = gGranted /\ gGranted > gBundles[n].floor
      BY <1>7, <2>7 DEF Importing, Imported
    <3>2. Imported(p, n)'
      BY <2>1, <2>3, <3>1 DEF Imported
    <3>3. MayGrant(n, 1)'
      <4>1. gGranted + 0 <= n + gStarts + (StateFaults - gFaults)
        BY <1>3, <2>7 DEF MayGrant
      <4>2. gGranted + 1 <= n + gStarts + (StateFaults - (gFaults - 1))
        BY <1>1, <2>1, <4>1
      <4> QED
        BY <2>1, <4>2 DEF MayGrant
    <3>4. /\ InBundle(h, n)' /\ gCommand'[h].at = "none" /\ gSource'[p].status = "none" /\ Quiet(p)'
          /\ \A g \in Hosts \ {h, p} : Aside(g, n)'
      BY <1>3, <1>4, <2>1, TargetKeeps DEF Done
    <3> QED
      BY <1>2, <2>1, <2>3, <2>4, <3>1, <3>2, <3>3, <3>4 DEF Moving
  <2> QED
    BY <1>4, <2>1, <2>5, <2>6, <2>7
<1>16. CASE G!Activate(p)
  <2>1. gCommand[p].at = "none" /\ Imported(p, n)
    BY <1>7, <1>16 DEF G!Activate, G!Free, Importing, G!NoMarker
  <2>2. /\ gTarget[p].floor = gBundles[n].floor /\ gBundles[n].floor <= gGranted
        /\ \/ gEpoch[p].generation = 0 /\ gGranted = gBundles[n].floor
           \/ gEpoch[p].generation = gGranted /\ gGranted > gBundles[n].floor
    BY <1>1, <1>2, <2>1 DEF Moving, Imported
  <2>3. G!NextGeneration(p) = gGranted + 1
    <3>1. gTarget[p].floor = gGranted \/ gEpoch[p].generation = gGranted
      BY <2>2
    <3>2. CASE gEpoch[p].generation = 0 /\ gTarget[p].floor = gGranted
      BY <1>1, <3>2 DEF G!NextGeneration
    <3>3. CASE gEpoch[p].generation = gGranted /\ gGranted > gTarget[p].floor
      BY <1>1, <3>3 DEF G!NextGeneration
    <3> QED
      BY <2>2, <3>2, <3>3
  <2>4. /\ gEpoch' = [gEpoch EXCEPT ![p] = [generation |-> gGranted + 1, alive |-> FALSE]]
        /\ gGranted' = gGranted + 1 /\ gCommand' = [gCommand EXCEPT ![p].at = "activated"]
        /\ UNCHANGED <<gState, gSource, gTarget, gBundles, gStart, gNewest, gStarts, gFaults>>
    BY <1>1, <1>16, <2>3 DEF G!Activate, G!Grant, G!Run
  <2>5. /\ gEpoch' \in [Hosts -> [generation : Nat, alive : BOOLEAN]]
        /\ gCommand' \in [Hosts -> Command0] /\ gGranted' \in Nat
        /\ gEpoch'[p].generation = gGranted' /\ ~gEpoch'[p].alive
        /\ gCommand'[p].at = "activated" /\ gGranted' > gBundles[n].floor
    <3>1. gGranted + 1 \in Nat /\ gGranted + 1 > gBundles[n].floor
      BY <1>1, <1>2, <2>2
    <3>2. gCommand' \in [Hosts -> Command0] /\ gCommand'[p].at = "activated"
      BY <1>1, <1>2, <2>4 DEF Command0
    <3>3. /\ gEpoch' \in [Hosts -> [generation : Nat, alive : BOOLEAN]]
          /\ gEpoch'[p] = [generation |-> gGranted + 1, alive |-> FALSE]
      BY <1>1, <2>4, <3>1
    <3> QED
      BY <2>4, <3>1, <3>2, <3>3
  <2>6. GTypes(n)'
    BY <1>1, <2>4, <2>5 DEF GTypes
  <2>7. Imported(p, n)'
    BY <2>1, <2>4, <2>5 DEF Imported
  <2>8. MayGrant(n, 0)'
    <3>1. gGranted + 1 <= n + gStarts + (StateFaults - gFaults)
      BY <1>3, <2>1 DEF MayGrant
    <3>2. (gGranted + 1) + 0 <= n + gStarts + (StateFaults - gFaults)
      BY <1>1, <3>1
    <3> QED
      BY <2>4, <3>2 DEF MayGrant
  <2>9. /\ InBundle(h, n)' /\ gCommand'[h].at = "none" /\ gSource'[p].status = "none" /\ Quiet(p)'
        /\ \A g \in Hosts \ {h, p} : Aside(g, n)'
    BY <1>4, <2>4, <2>5, TargetKeeps DEF Done
  <2> QED
    BY <1>2, <2>4, <2>5, <2>6, <2>7, <2>8, <2>9 DEF Moving
<1>17. CASE G!ActivationRecorded(p)
  <2>1. /\ gCommand[p].at = "activated" /\ gTarget' = [gTarget EXCEPT ![p] = G!Activated(gTarget[p])]
        /\ gCommand' = [gCommand EXCEPT ![p] = G!NoCommand]
        /\ UNCHANGED <<gState, gEpoch, gSource, gBundles, gStart, gNewest, gGranted, gStarts, gFaults>>
    BY <1>17 DEF G!ActivationRecorded, G!EndCommand
  <2>2. /\ Imported(p, n) /\ gEpoch[p].generation = gGranted /\ gGranted > gBundles[n].floor
        /\ gTarget[p].status = "imported" /\ gTarget[p].id = n
    BY <1>7, <2>1 DEF Importing, Imported
  <2>3. /\ G!Activated(gTarget[p]) \in G!Marker /\ G!Activated(gTarget[p]).id = n
        /\ G!Activated(gTarget[p]).floor = gTarget[p].floor
        /\ G!Activated(gTarget[p]).status = "activated"
    BY <1>2, <2>2 DEF G!Activated, G!Marker
  <2>4. /\ gTarget' \in [Hosts -> G!Marker] /\ gTarget'[p] = G!Activated(gTarget[p])
        /\ gCommand' \in [Hosts -> Command0] /\ gCommand'[p].at = "none"
    BY <1>1, <1>5, <2>1, <2>3
  <2>5. GTypes(n)'
    BY <1>1, <2>1, <2>4 DEF GTypes
  <2>6. MayGrant(n, 0)'
    BY <1>3, <2>1 DEF MayGrant
  <2> QED
    BY <1>9, <2>1, <2>2, <2>3, <2>4, <2>5, <2>6
<1>18. CASE G!Verify(p)
  <2>1. /\ gCommand[p].at = "none" /\ gTarget[p].status # "none"
        /\ gEpoch[p].generation > gTarget[p].floor
        /\ gTarget' = [gTarget EXCEPT ![p].status = "verified"]
        /\ UNCHANGED <<gState, gEpoch, gSource, gBundles, gCommand, gStart, gNewest, gGranted, gStarts,
                       gFaults>>
    BY <1>18 DEF G!Verify, G!Free
  <2>2. gTarget[p].floor = gBundles[n].floor /\ gTarget[p].id = n
    BY <1>7, <2>1 DEF Importing, Imported, G!NoMarker
  <2>3. gEpoch[p].generation # 0
    BY <1>2, <2>1, <2>2
  <2>4. Imported(p, n) /\ gEpoch[p].generation = gGranted /\ gGranted > gBundles[n].floor
    BY <1>6, <1>7, <2>3 DEF Imported
  <2>5. /\ gTarget' \in [Hosts -> G!Marker] /\ gTarget'[p].status = "verified"
        /\ gTarget'[p].id = n /\ gTarget'[p].floor = gTarget[p].floor
    BY <1>1, <1>2, <2>1, <2>2 DEF G!Marker
  <2>6. GTypes(n)'
    BY <1>1, <2>1, <2>5 DEF GTypes
  <2>7. MayGrant(n, 0)'
    BY <1>1, <1>2, <1>3, <2>1, FaultsLeaveRoom
  <2> QED
    BY <1>9, <2>1, <2>4, <2>5, <2>6, <2>7
<1>19. /\ ~G!StartChecks(p) /\ ~G!ExportBegins(p) /\ ~G!Cancel(p) /\ \A b : ~G!ImportBegins(p, b)
  <2>1. gCommand[p].at # "none" \/ gTarget[p].status \in {"importing", "imported"}
    BY <1>7 DEF Importing, Imported
  <2> QED
    BY <1>3, <2>1 DEF G!StartChecks, G!StartAllowed, G!ExportBegins, G!Cancel, G!ImportBegins,
                      G!Fenced, G!Free
<1>20. ~G!StartWrites(p) /\ ~G!StartRecords(p) /\ ~G!Work(p) /\ ~G!DaemonEnds(p)
  BY <1>3 DEF G!StartWrites, G!StartRecords, G!Work, G!DaemonEnds
<1>21. /\ ~G!ExportFences(p) /\ ~G!ExportArchives(p) /\ ~G!ExportBundles(p) /\ ~G!ExportEnds(p)
       /\ ~G!ExportFails(p)
  BY <1>4 DEF G!ExportFences, G!ExportArchives, G!ExportBundles, G!ExportEnds, G!ExportFails
<1> QED
  BY <1>11, <1>12, <1>13, <1>14, <1>15, <1>16, <1>17, <1>18, <1>19, <1>20, <1>21
     DEF HostStep, G!Daemon, G!Export, G!Import

LEMMA MigrationKeeps ==
    ASSUME MigrationInv, G!Next, Overlap = FALSE, Leftovers = FALSE
    PROVE  MigrationInv'
<1>1. PICK n \in Nat : GTypes(n) /\ Phase(n)
  BY DEF MigrationInv
<1>2. PICK g \in Hosts : HostStep(g)
  BY DEF G!Next, HostStep
<1>3. PICK h \in Hosts : Open(h, n) \/ Exported(h, n) \/ \E p \in Hosts : Moving(h, p, n)
  BY <1>1 DEF Phase
<1>4. CASE Open(h, n)
  <2>1. CASE g = h
    <3>1. n + 1 \in Nat
      OBVIOUS
    <3>2. GTypes(n)' /\ Open(h, n)' => MigrationInv'
      BY <1>3 DEF MigrationInv, Phase
    <3>3. GTypes(n + 1)' /\ Exported(h, n + 1)' => MigrationInv'
      BY <1>3, <3>1 DEF MigrationInv, Phase
    <3> QED
      BY <1>1, <1>2, <1>4, <2>1, <3>2, <3>3, OpenStep
  <2>2. CASE g # h
    <3>1. PICK b \in 1..n : G!ImportBegins(g, b)
      BY <1>1, <1>2, <1>4, <2>2, AsideWaits DEF Open
    <3>2. Spent(b)
      <4>1. b < n \/ (b = n /\ n > 0)
        OBVIOUS
      <4> QED
        BY <1>4, <4>1 DEF Open, Owns
    <3> QED
      BY <3>1, <3>2 DEF G!ImportBegins, Spent
  <2> QED
    BY <2>1, <2>2
<1>5. CASE Exported(h, n)
  <2>1. CASE g = h
    BY <1>1, <1>2, <1>3, <1>5, <2>1, ExportedStep DEF MigrationInv, Phase
  <2>2. CASE g # h
    BY <1>1, <1>2, <1>3, <1>5, <2>2, ImportStep DEF MigrationInv, Phase
  <2> QED
    BY <2>1, <2>2
<1>6. ASSUME NEW p \in Hosts, Moving(h, p, n) PROVE MigrationInv'
  <2>1. CASE g = h
    BY <1>1, <1>2, <1>3, <1>6, <2>1, SourceStep DEF MigrationInv, Phase
  <2>2. CASE g = p
    BY <1>1, <1>2, <1>3, <1>6, <2>2, TargetStep DEF MigrationInv, Phase
  <2> QED
    BY <1>1, <1>2, <1>6, <2>1, <2>2, NobodyElseMoves
<1> QED
  BY <1>3, <1>4, <1>5, <1>6

LEMMA MigrationBegins == ASSUME G!Init PROVE MigrationInv
<1> USE HostsAssumption
<1>1. /\ gState = [h \in Hosts |-> IF h = FirstHost THEN 1 ELSE 0]
      /\ gEpoch = [h \in Hosts |-> [generation |-> 0, alive |-> FALSE]]
      /\ gSource = [h \in Hosts |-> G!NoMarker] /\ gTarget = [h \in Hosts |-> G!NoMarker]
      /\ gBundles = <<>> /\ gNewest = 1 /\ gGranted = 0
      /\ gCommand = [h \in Hosts |-> G!NoCommand] /\ gStart = [h \in Hosts |-> "none"]
      /\ gStarts = 0 /\ gFaults = StateFaults
  BY DEF G!Init
<1>2. G!NoMarker \in G!Marker /\ G!NoCommand \in Command0
  <2>1. /\ 0 \in 0..(MaxStarts + MaxBundles + StateFaults) /\ 0 \in 0..MaxBundles
        /\ 0 \in 0..(MaxVersion + 1)
    OBVIOUS
  <2> QED
    BY <2>1 DEF G!NoMarker, G!Marker, G!NoCommand, Command0, G!Partial
<1>3. gBundles \in [1..0 -> Bundle0]
  BY <1>1
<1>4. GTypes(0)
  BY <1>1, <1>2, <1>3 DEF GTypes, G!Partial
<1>5. MayGrant(0, 0)
  BY <1>1 DEF MayGrant
<1>6. \A g \in Hosts \ {FirstHost} : Aside(g, 0)
  BY <1>1 DEF Aside, Quiet, Idle, G!NoMarker, G!NoCommand
<1>7. Open(FirstHost, 0)
  BY <1>1, <1>5, <1>6 DEF Open, Owns, G!NoMarker, G!NoCommand
<1> QED
  BY <1>4, <1>7 DEF MigrationInv, Phase

LEMMA MigrationStays == ASSUME MigrationInv, UNCHANGED migration PROVE MigrationInv'
<1>1. PICK n \in Nat : GTypes(n) /\ Phase(n)
  BY DEF MigrationInv
<1>2. GTypes(n)'
  BY <1>1 DEF migration, GTypes
<1>3. \A b, more : (Spent(b) => Spent(b)') /\ (MayGrant(b, more) => MayGrant(b, more)')
  BY DEF migration, Spent, MayGrant
<1>4. \A g : (Aside(g, n) => Aside(g, n)') /\ (Owns(g, n) => Owns(g, n)')
  BY <1>3 DEF migration, Aside, Quiet, Idle, Left, Dead, Taken, Done, Owns
<1>5. \A h : InBundle(h, n) => InBundle(h, n)'
  BY <1>4 DEF migration, InBundle, Quiet
<1>6. PICK h \in Hosts : Open(h, n) \/ Exported(h, n) \/ \E p \in Hosts : Moving(h, p, n)
  BY <1>1 DEF Phase
<1>7. Open(h, n) => Open(h, n)'
  BY <1>3, <1>4 DEF migration, Open
<1>8. Exported(h, n) => Exported(h, n)'
  BY <1>3, <1>4, <1>5 DEF migration, Exported
<1>9. \A p : Moving(h, p, n) => Moving(h, p, n)'
  BY <1>3, <1>4, <1>5 DEF migration, Moving, Importing, Imported, Quiet
<1> QED
  BY <1>2, <1>6, <1>7, <1>8, <1>9 DEF MigrationInv, Phase

LEMMA MigrationIsSafe == ASSUME MigrationInv PROVE G!TypeOK /\ G!OneContinuation
<1>1. PICK n \in Nat : GTypes(n) /\ Phase(n)
  BY DEF MigrationInv
<1>2. G!TypeOK
  BY <1>1 DEF GTypes, G!TypeOK
<1>3. \A g \in Hosts : Aside(g, n) => ~G!MayRun(g)
  BY DEF Aside, Idle, Left, Dead, Quiet, G!MayRun, G!StartAllowed, G!Fenced
<1>4. PICK h \in Hosts : Open(h, n) \/ Exported(h, n) \/ \E p \in Hosts : Moving(h, p, n)
  BY <1>1 DEF Phase
<1>5. CASE Open(h, n)
  <2>1. gState[h] = gNewest /\ \A g \in Hosts : G!MayRun(g) => g = h
    BY <1>3, <1>5 DEF Open, Owns
  <2> QED
    BY <1>2, <2>1 DEF G!OneContinuation
<1>6. InBundle(h, n) => ~G!MayRun(h)
  BY DEF InBundle, Quiet, G!MayRun, G!StartAllowed, G!Fenced
<1>7. CASE Exported(h, n)
  <2>1. \A g \in Hosts : ~G!MayRun(g)
    BY <1>3, <1>6, <1>7 DEF Exported
  <2> QED
    BY <1>2, <2>1 DEF G!OneContinuation
<1>8. ASSUME NEW p \in Hosts, Moving(h, p, n) PROVE G!OneContinuation
  <2>1. ~G!MayRun(p)
    BY <1>8 DEF Moving, Importing, Imported, Quiet, G!MayRun, G!StartAllowed, G!Fenced, G!NoMarker
  <2>2. \A g \in Hosts : ~G!MayRun(g)
    BY <1>3, <1>6, <1>8, <2>1 DEF Moving
  <2> QED
    BY <2>2 DEF G!OneContinuation
<1> QED
  BY <1>2, <1>4, <1>5, <1>7, <1>8

\* A generation is granted only beyond all that were granted before.
LEMMA MigrationAdvances ==
    ASSUME MigrationInv, G!Next, Overlap = FALSE
    PROVE  gGranted' # gGranted \/ \A h \in Hosts : gEpoch'[h].generation = gEpoch[h].generation
<1>1. PICK n \in Nat : GTypes(n) /\ Phase(n)
  BY DEF MigrationInv
<1>2. PICK g \in Hosts : HostStep(g)
  BY DEF G!Next, HostStep
<1>3. gGranted \in Nat /\ gEpoch \in [Hosts -> [generation : Nat, alive : BOOLEAN]]
  BY <1>1 DEF GTypes
<1>4. ASSUME UNCHANGED gEpoch \/ gEpoch' = [gEpoch EXCEPT ![g].alive = FALSE]
      PROVE  \A h \in Hosts : gEpoch'[h].generation = gEpoch[h].generation
  BY <1>3, <1>4
<1>5. CASE G!StartWrites(g) \/ G!Activate(g)
  <2>1. PICK h \in Hosts : Open(h, n) \/ Exported(h, n) \/ \E p \in Hosts : Moving(h, p, n)
    BY <1>1 DEF Phase
  <2>2. gTarget[g].floor \in Nat /\ gEpoch[g].generation \in Nat
    <3>1. gTarget \in [Hosts -> G!Marker]
      BY <1>1 DEF GTypes
    <3>2. \A m \in G!Marker : m.floor \in Nat
      BY DEF G!Marker
    <3> QED
      BY <1>2, <1>3, <3>1, <3>2
  <2>3. gTarget[g].floor = gGranted \/ gEpoch[g].generation = gGranted
    <3>1. ~Aside(g, n)
      <4>1. gStart[g] # "none" \/ gTarget[g].status = "imported"
        BY <1>5 DEF G!StartWrites, G!Activate
      <4> QED
        BY <4>1 DEF Aside, Idle, Left, Dead, Quiet, G!NoMarker
    <3>2. CASE Open(h, n)
      BY <3>1, <3>2 DEF Open
    <3>3. CASE Exported(h, n)
      BY <3>1, <3>3 DEF Exported
    <3>4. ASSUME NEW p \in Hosts, Moving(h, p, n)
          PROVE  gTarget[g].floor = gGranted \/ gEpoch[g].generation = gGranted
      <4>1. g # h
        BY <1>5, <3>4 DEF Moving, InBundle, Quiet, G!StartWrites, G!Activate, G!Fenced
      <4>2. g = p
        BY <3>1, <3>4, <4>1 DEF Moving
      <4>3. ~G!StartWrites(g)
        BY <3>4, <4>2 DEF Moving, Quiet, G!StartWrites
      <4>4. gTarget[g].status = "imported"
        BY <1>5, <4>3 DEF G!Activate
      <4>5. Imported(g, n)
        BY <3>4, <4>2, <4>4 DEF Moving, Importing, G!NoMarker
      <4> QED
        BY <3>4, <4>2, <4>5 DEF Moving, Imported
    <3> QED
      BY <2>1, <3>2, <3>3, <3>4
  <2>4. G!NextGeneration(g) > gGranted
    <3>1. CASE gTarget[g].floor = gGranted
      BY <1>3, <2>2, <3>1 DEF G!NextGeneration
    <3>2. CASE gEpoch[g].generation = gGranted
      BY <1>3, <2>2, <3>2 DEF G!NextGeneration
    <3> QED
      BY <2>3, <3>1, <3>2
  <2>5. G!NextGeneration(g) \in Nat
    BY <2>2 DEF G!NextGeneration
  <2>6. gGranted' = G!NextGeneration(g)
    BY <1>5, <2>4 DEF G!StartWrites, G!Activate, G!Grant
  <2> QED
    BY <1>3, <2>4, <2>5, <2>6
<1>6. CASE ~G!StartWrites(g) /\ ~G!Activate(g)
  <2>1. UNCHANGED gEpoch \/ gEpoch' = [gEpoch EXCEPT ![g].alive = FALSE]
    BY <1>2, <1>6
       DEF HostStep, G!Daemon, G!StartChecks, G!StartRecords, G!Work, G!DaemonEnds,
           G!Export, G!ExportBegins, G!ExportFences, G!ExportArchives, G!ExportBundles,
           G!ExportEnds, G!ExportFails, G!Cancel, G!Import, G!ImportBegins, G!ImportMarks,
           G!ImportWrites, G!ImportEnds, G!ImportFails, G!ActivationRecorded, G!Verify,
           G!Interrupted
  <2> QED
    BY <1>4, <2>1
<1> QED
  BY <1>5, <1>6

-----------------------------------------------------------------------------
(* Private state.                                                          *)

Contents0 == [content : 0..MaxWrites, current : BOOLEAN]

TTypes ==
    /\ tFile \in [Files -> Contents0] /\ tManifest \in BOOLEAN /\ tDaemon \in BOOLEAN
    /\ tNewest \in [Files -> 0..MaxWrites] /\ tFaults \in 0..StateFaults
    /\ tUpgrade \in [at : {"none", "files", "validate", "restore"}, todo : SUBSET Files,
                      backup : {<<>>} \cup [Files -> Contents0], manifest : BOOLEAN]
    /\ tUpgrade.at # "none" => tUpgrade.backup \in [Files -> Contents0]

\* The backup is what there was, and is as new as the files; an upgrade that need not roll
\* back found no manifest, and has made current what it does not have left to do.
UpgradeInv ==
    /\ tUpgrade.at # "none" =>
         /\ ~tDaemon /\ \A f \in Files : tUpgrade.backup[f].content = tNewest[f]
         /\ tFaults >= StateFaults - 1 => ~tUpgrade.manifest
    /\ tUpgrade.at = "files" =>
         /\ T!Outdated \subseteq tUpgrade.todo
         /\ tFaults >= StateFaults - 1 => ~tManifest
    /\ tUpgrade.at = "validate" => T!Outdated = {}
    /\ tUpgrade.at = "restore" => tFaults < StateFaults

PrivateInv == TTypes /\ UpgradeInv /\ T!UpgradeIsSafe

LEMMA PrivateKeeps == ASSUME PrivateInv, T!Next PROVE PrivateInv'
<1>1. /\ tFile \in [Files -> Contents0] /\ tManifest \in BOOLEAN /\ tDaemon \in BOOLEAN
      /\ tNewest \in [Files -> 0..MaxWrites] /\ tFaults \in 0..StateFaults
      /\ tUpgrade \in [at : {"none", "files", "validate", "restore"}, todo : SUBSET Files,
                        backup : {<<>>} \cup [Files -> Contents0], manifest : BOOLEAN]
      /\ tUpgrade.at # "none" => tUpgrade.backup \in [Files -> Contents0]
      /\ UpgradeInv /\ T!UpgradeIsSafe
  BY DEF PrivateInv, TTypes
<1>2. /\ T!Outdated = {f \in Files : ~tFile[f].current}
      /\ T!Outdated' = {f \in Files : ~tFile'[f].current}
  BY DEF T!Outdated
<1>3. CASE T!DaemonStarts \/ T!DaemonStops
  <2>1. /\ tDaemon' \in BOOLEAN /\ (tUpgrade.at # "none" => ~tDaemon /\ ~tDaemon')
        /\ UNCHANGED <<tFile, tManifest, tUpgrade, tNewest, tFaults>>
    BY <1>1, <1>3 DEF T!DaemonStarts, T!DaemonStops, UpgradeInv
  <2>2. T!Outdated' = T!Outdated
    BY <1>2, <2>1
  <2>3. TTypes'
    BY <1>1, <2>1 DEF TTypes
  <2> QED
    BY <1>1, <2>1, <2>2, <2>3 DEF PrivateInv, UpgradeInv, T!UpgradeIsSafe
<1>4. ASSUME NEW f \in Files, T!DaemonWrites(f) PROVE PrivateInv'
  <2>1. /\ tDaemon /\ tNewest[f] < MaxWrites
        /\ tNewest' = [tNewest EXCEPT ![f] = @ + 1]
        /\ tFile' = [tFile EXCEPT ![f] = [content |-> tNewest[f] + 1, current |-> TRUE]]
        /\ UNCHANGED <<tManifest, tDaemon, tUpgrade, tFaults>>
    BY <1>4 DEF T!DaemonWrites
  <2>2. tNewest[f] + 1 \in 0..MaxWrites /\ tUpgrade.at = "none"
    BY <1>1, <2>1, WritesAssumption DEF UpgradeInv
  <2>3. tFile' \in [Files -> Contents0] /\ tNewest' \in [Files -> 0..MaxWrites]
    BY <1>1, <2>1, <2>2 DEF Contents0
  <2>4. T!Outdated' \subseteq T!Outdated
    BY <1>1, <1>2, <2>1
  <2>5. \A g \in Files : tFile'[g].content = tNewest'[g]
    BY <1>1, <2>1 DEF T!UpgradeIsSafe
  <2> QED
    BY <1>1, <2>1, <2>2, <2>3, <2>4, <2>5 DEF PrivateInv, TTypes, UpgradeInv, T!UpgradeIsSafe
<1>5. CASE T!Begin
  <2>1. /\ tUpgrade.at = "none" /\ ~tDaemon /\ (~tManifest \/ T!Outdated # {})
        /\ tUpgrade' = [at |-> "files", todo |-> T!Outdated, manifest |-> tManifest, backup |-> tFile]
        /\ UNCHANGED <<tFile, tManifest, tDaemon, tNewest, tFaults>>
    BY <1>5 DEF T!Begin, T!Required
  <2> QED
    BY <1>1, <1>2, <2>1 DEF PrivateInv, TTypes, UpgradeInv, T!UpgradeIsSafe
<1>6. ASSUME NEW f \in Files, T!Normalize(f) PROVE PrivateInv'
  <2>1. /\ tUpgrade.at = "files" /\ tFile' = [tFile EXCEPT ![f].current = TRUE]
        /\ tUpgrade' = [tUpgrade EXCEPT !.todo = @ \ {f}]
        /\ UNCHANGED <<tManifest, tDaemon, tNewest, tFaults>>
    BY <1>6 DEF T!Normalize
  <2>2. tFile' \in [Files -> Contents0] /\ \A g \in Files : tFile'[g].content = tFile[g].content
    BY <1>1, <2>1 DEF Contents0
  <2>3. T!Outdated' \subseteq T!Outdated \ {f}
    BY <1>1, <1>2, <2>1 DEF Contents0
  <2>4. /\ tUpgrade'.at = "files" /\ tUpgrade'.todo = tUpgrade.todo \ {f}
        /\ tUpgrade'.backup = tUpgrade.backup /\ tUpgrade'.manifest = tUpgrade.manifest
    BY <2>1
  <2> QED
    BY <1>1, <2>1, <2>2, <2>3, <2>4 DEF PrivateInv, TTypes, UpgradeInv, T!UpgradeIsSafe
<1>7. ASSUME NEW at \in {"none", "validate", "restore"}, NEW todo \in SUBSET Files,
             tUpgrade.at # "none", tUpgrade' = [tUpgrade EXCEPT !.at = at, !.todo = todo],
             tFile' = tFile, tDaemon' = tDaemon, tNewest' = tNewest, tManifest' \in BOOLEAN,
             tFaults' \in 0..StateFaults, tFaults' <= tFaults,
             tUpgrade.at # "none", at = "validate" => T!Outdated = {}, at = "restore" => tFaults' < StateFaults,
             tManifest' /\ tFaults' >= StateFaults - 1 /\ at # "restore" => T!Outdated = {}
      PROVE  PrivateInv'
  <2>1. T!Outdated' = T!Outdated
    BY <1>2, <1>7
  <2>2. /\ tUpgrade' \in [at : {"none", "files", "validate", "restore"}, todo : SUBSET Files,
                          backup : {<<>>} \cup [Files -> Contents0], manifest : BOOLEAN]
        /\ tUpgrade'.at = at /\ tUpgrade'.backup = tUpgrade.backup
        /\ tUpgrade'.manifest = tUpgrade.manifest
    BY <1>1, <1>7
  <2>3. TTypes'
    BY <1>1, <1>7, <2>2 DEF TTypes
  <2>4. tFaults' >= StateFaults - 1 => tFaults >= StateFaults - 1
    BY <1>1, <1>7, WritesAssumption
  <2>5. UpgradeInv'
    BY <1>1, <1>7, <2>1, <2>2, <2>4 DEF UpgradeInv
  <2>6. T!UpgradeIsSafe'
    BY <1>1, <1>7, <2>1, <2>2 DEF T!UpgradeIsSafe
  <2> QED
    BY <2>3, <2>5, <2>6 DEF PrivateInv
<1>77. ASSUME tUpgrade.at # "none", tUpgrade' = [tUpgrade EXCEPT !.at = "none", !.todo = {}],
              tFile' = tFile, tDaemon' = tDaemon, tNewest' = tNewest, tManifest' \in BOOLEAN,
              tFaults' \in 0..StateFaults, tFaults' <= tFaults,
              T!Outdated = {} \/ tManifest' = FALSE \/ ~(tFaults' >= StateFaults - 1)
       PROVE  PrivateInv'
  <2>1. "none" \in {"none", "validate", "restore"} /\ {} \in SUBSET Files
        /\ "none" # "validate" /\ "none" # "restore"
    OBVIOUS
  <2> QED
    BY ONLY <1>7, <1>77, <2>1, Zenon
<1>8. CASE T!WriteManifest
  <2>1. /\ tUpgrade.at = "files" /\ tUpgrade.todo = {} /\ tManifest' = TRUE
        /\ tUpgrade' = [tUpgrade EXCEPT !.at = "validate"]
        /\ UNCHANGED <<tFile, tDaemon, tNewest, tFaults>>
    BY <1>8 DEF T!WriteManifest
  <2>2. T!Outdated = {}
    BY <1>1, <2>1 DEF UpgradeInv
  <2>3. tUpgrade' = [tUpgrade EXCEPT !.at = "validate", !.todo = {}]
    BY <1>1, <2>1
  <2>4. tManifest' \in BOOLEAN /\ tFaults' \in 0..StateFaults /\ tFaults' <= tFaults
    BY <1>1, <2>1, WritesAssumption
  <2> QED
    BY <1>7, <2>1, <2>2, <2>3, <2>4
<1>9. CASE T!Validate
  <2>1. /\ tUpgrade.at = "validate" /\ tUpgrade' = [tUpgrade EXCEPT !.at = "none", !.todo = {}]
        /\ UNCHANGED <<tFile, tManifest, tDaemon, tNewest, tFaults>>
    BY <1>9 DEF T!Validate, T!Ends
  <2>2. T!Outdated = {} /\ tManifest' \in BOOLEAN
    BY <1>1, <2>1 DEF UpgradeInv
  <2>3. tFaults' \in 0..StateFaults /\ tFaults' <= tFaults
    BY <1>1, <2>1, WritesAssumption
  <2> QED
    BY <1>77, <2>1, <2>2, <2>3
<1>10. CASE T!Fails
  <2>1. /\ tUpgrade.at \in {"files", "validate"} /\ tFaults > 0 /\ tFaults' = tFaults - 1
        /\ tUpgrade' = [tUpgrade EXCEPT !.at = "restore",
                                        !.todo = {f \in Files : ~tUpgrade.backup[f].current}]
        /\ UNCHANGED <<tFile, tManifest, tDaemon, tNewest>>
    BY <1>10 DEF T!Fails, T!Fault
  <2>2. PICK todo \in SUBSET Files : tUpgrade' = [tUpgrade EXCEPT !.at = "restore", !.todo = todo]
    BY <2>1
  <2>3. tFaults' \in 0..StateFaults /\ tFaults' < StateFaults /\ tFaults' <= tFaults
    BY <1>1, <2>1, WritesAssumption
  <2> QED
    BY <1>1, <1>7, <2>1, <2>2, <2>3
<1>11. ASSUME NEW f \in Files, T!Restore(f) PROVE PrivateInv'
  <2>1. /\ tUpgrade.at = "restore" /\ tFile' = [tFile EXCEPT ![f] = tUpgrade.backup[f]]
        /\ UNCHANGED <<tManifest, tDaemon, tNewest, tFaults>>
        /\ tUpgrade' = [tUpgrade EXCEPT !.todo = @ \ {f}]
    BY <1>11 DEF T!Restore
  <2>2. /\ tFile' \in [Files -> Contents0]
        /\ \A g \in Files : tFile'[g].content = tNewest[g]
    BY <1>1, <2>1 DEF UpgradeInv, T!UpgradeIsSafe
  <2>3. /\ tUpgrade'.at = "restore" /\ tUpgrade'.backup = tUpgrade.backup
        /\ tUpgrade'.manifest = tUpgrade.manifest
        /\ tUpgrade' \in [at : {"none", "files", "validate", "restore"}, todo : SUBSET Files,
                          backup : {<<>>} \cup [Files -> Contents0], manifest : BOOLEAN]
    BY <1>1, <2>1
  <2> QED
    BY <1>1, <2>1, <2>2, <2>3 DEF PrivateInv, TTypes, UpgradeInv, T!UpgradeIsSafe
<1>12. CASE T!RestoreManifest
  <2>1. /\ tUpgrade.at = "restore" /\ tManifest' = tUpgrade.manifest
        /\ tUpgrade' = [tUpgrade EXCEPT !.at = "none", !.todo = {}]
        /\ UNCHANGED <<tFile, tDaemon, tNewest, tFaults>>
    BY <1>12 DEF T!RestoreManifest, T!Ends
  <2>2. tFaults' >= StateFaults - 1 => ~tManifest'
    BY <1>1, <2>1 DEF UpgradeInv
  <2>3. tManifest' \in BOOLEAN /\ tFaults' \in 0..StateFaults /\ tFaults' <= tFaults
    BY <1>1, <2>1, WritesAssumption
  <2> QED
    BY <1>77, <2>1, <2>2, <2>3
<1>13. CASE T!Killed
  <2>1. /\ tUpgrade.at # "none" /\ tFaults > 0 /\ tFaults' = tFaults - 1
        /\ tUpgrade' = [tUpgrade EXCEPT !.at = "none", !.todo = {}]
        /\ UNCHANGED <<tFile, tManifest, tDaemon, tNewest>>
    BY <1>13 DEF T!Killed, T!Fault, T!Ends
  <2>2. /\ tFaults' \in 0..StateFaults /\ tFaults' <= tFaults
        /\ tFaults' >= StateFaults - 1 => tFaults >= StateFaults - 1 /\ tFaults = StateFaults
    BY <1>1, <2>1, WritesAssumption
  <2>3. tUpgrade.at = "restore" => tFaults < StateFaults
    BY <1>1 DEF UpgradeInv
  <2>4. tManifest' /\ tFaults' >= StateFaults - 1 => T!Outdated = {}
    BY <1>1, <2>1, <2>2, <2>3, WritesAssumption DEF T!UpgradeIsSafe
  <2>5. tManifest' \in BOOLEAN
    BY <1>1, <2>1
  <2> QED
    BY <1>77, <2>1, <2>2, <2>4, <2>5
<1> QED
  BY <1>3, <1>4, <1>5, <1>6, <1>8, <1>9, <1>10, <1>11, <1>12, <1>13 DEF T!Next

LEMMA PrivateBegins == ASSUME T!Init PROVE PrivateInv
<1>1. /\ tFile = [f \in Files |-> [content |-> 0, current |-> FALSE]] /\ tManifest = FALSE
      /\ tDaemon = FALSE /\ tNewest = [f \in Files |-> 0] /\ tFaults = StateFaults
      /\ tUpgrade = [at |-> "none", todo |-> {}, backup |-> <<>>, manifest |-> FALSE]
  BY DEF T!Init, T!NoUpgrade
<1>2. 0 \in 0..MaxWrites /\ StateFaults \in 0..StateFaults
  BY WritesAssumption
<1>3. TTypes
  BY <1>1, <1>2 DEF TTypes, Contents0
<1>4. UpgradeInv /\ T!UpgradeIsSafe
  BY <1>1 DEF UpgradeInv, T!UpgradeIsSafe
<1> QED
  BY <1>3, <1>4 DEF PrivateInv

LEMMA PrivateIsSafe == ASSUME PrivateInv PROVE T!TypeOK /\ T!UpgradeIsSafe
  BY DEF PrivateInv, TTypes, Contents0, T!TypeOK

-----------------------------------------------------------------------------
(* Environments.                                                           *)

Steps == {"start", "check", "wait", "locked", "remove", "build", "recheck", "use", "failed",
          "done"}
AllParts == {"python", "backend", "paths", ".complete", "first-package", "second-package"}

VTypes ==
    /\ vTarget \in [V!Directories -> SUBSET AllParts]
    /\ vTemporary \in [V!Processes -> SUBSET AllParts]
    /\ vStep \in [V!Processes -> Steps]
    /\ V!TypeOK

\* Who builds or removes holds the lock; a process that checks or checks again is a Doctor,
\* and it looked for the managed environment before.
LockInv ==
    \A p \in V!Processes :
        /\ vStep[p] \in {"locked", "remove", "build"} <=> vLock[V!Directory(p)] = p
        /\ vStep[p] = "start" => vPython[p] = "base"
        /\ vStep[p] \in {"check", "recheck"} => p \in Doctors

\* Nothing is removed from a directory that is whole, unless it was damaged or taken for it.
WholeOrNothing ==
    /\ \A d \in V!Directories : d \notin vDamaged => vTarget[d] \in {{}, V!Whole(d)}
    /\ \A p \in V!Processes : vStep[p] = "remove" /\ V!Directory(p) \notin vDamaged
                               => vTarget[V!Directory(p)] = {}

EnvironmentsInv == VTypes /\ LockInv /\ WholeOrNothing /\ V!EnvironmentInUseIsWhole

\* The parts of each directory.
LEMMA WholeIs ==
    /\ V!Whole("validation") = {"python", "backend", "paths", ".complete"}
    /\ V!Whole("dependencies") = {"first-package", "second-package", ".complete"}
    /\ \A d \in V!Directories : V!Whole(d) \subseteq AllParts /\ ".complete" \in V!Whole(d)
    /\ \A p : V!Directory(p) \in V!Directories
    /\ \A d \in V!Directories : V!Order[d] \in Seq(AllParts)
<1> DEFINE validation == V!Order["validation"]
           dependencies == V!Order["dependencies"]
<1>1. /\ validation = <<"python", "backend", "paths", ".complete">>
      /\ dependencies = <<"first-package", "second-package", ".complete">>
  BY DEF V!Order
<1>2. /\ V!Whole("validation") = {validation[i] : i \in DOMAIN validation}
      /\ V!Whole("dependencies") = {dependencies[i] : i \in DOMAIN dependencies}
  BY DEF V!Whole, V!ToSet
<1> HIDE DEF validation, dependencies
<1>3. 1..4 = {1, 2, 3, 4} /\ 1..3 = {1, 2, 3}
  OBVIOUS
<1>4. V!Whole("validation") = {"python", "backend", "paths", ".complete"}
  <2>1. /\ DOMAIN validation = 1..4 /\ validation[1] = "python" /\ validation[2] = "backend"
        /\ validation[3] = "paths" /\ validation[4] = ".complete"
    BY <1>1
  <2> QED
    BY <1>2, <1>3, <2>1
<1>5. V!Whole("dependencies") = {"first-package", "second-package", ".complete"}
  <2>1. /\ DOMAIN dependencies = 1..3 /\ dependencies[1] = "first-package"
        /\ dependencies[2] = "second-package" /\ dependencies[3] = ".complete"
    BY <1>1
  <2> QED
    BY <1>2, <1>3, <2>1
<1>6. validation \in Seq(AllParts) /\ dependencies \in Seq(AllParts)
  BY <1>1 DEF AllParts
<1> QED
  BY <1>4, <1>5, <1>6 DEF V!Directories, V!Directory, AllParts, validation, dependencies

\* What is built comes in order, and is never more than the whole.
LEMMA BuiltParts ==
    ASSUME NEW p \in V!Processes, VTypes, vTemporary[p] # V!Whole(V!Directory(p))
    PROVE  V!ToSet(SubSeq(V!Order[V!Directory(p)], 1, V!Cardinality(vTemporary[p]) + 1))
             \subseteq V!Whole(V!Directory(p))
<1> DEFINE d == V!Directory(p)
           n == V!Cardinality(vTemporary[p])
           order == V!Order[d]
<1>0. d \in {"validation", "dependencies"}
  BY DEF V!Directory
<1>2. order \in Seq(AllParts) /\ Len(order) \in Nat /\ DOMAIN order = 1..Len(order)
  BY <1>0, WholeIs DEF V!Directories
<1>1. n = Cardinality(vTemporary[p]) /\ V!Whole(d) = {order[i] : i \in 1..Len(order)}
  BY <1>2 DEF V!Cardinality, Cardinality, V!Whole, V!ToSet
<1>3. vTemporary[p] \subseteq V!Whole(d) /\ vTemporary[p] # V!Whole(d)
  BY DEF VTypes, V!TypeOK
<1>4. IsFiniteSet(V!Whole(d)) /\ Cardinality(V!Whole(d)) <= Len(order)
  <2>1. IsFiniteSet(1..Len(order)) /\ Cardinality(1..Len(order)) = Len(order)
    BY <1>2, FS_Interval
  <2> DEFINE f == [i \in 1..Len(order) |-> order[i]]
  <2>2. f \in Surjection(1..Len(order), V!Whole(d))
    BY <1>1 DEF Surjection
  <2> QED
    BY <2>1, <2>2, FS_Surjection
<1>5. n \in Nat /\ n < Len(order)
  BY <1>1, <1>2, <1>3, <1>4, FS_Subset, FS_CardinalityType
<1> HIDE DEF n, order
<1>6. /\ SubSeq(order, 1, n + 1) \in Seq(AllParts) /\ DOMAIN SubSeq(order, 1, n + 1) = 1..(n + 1)
      /\ \A i \in 1..(n + 1) : SubSeq(order, 1, n + 1)[i] = order[i]
  BY <1>2, <1>5
<1>7. \A i \in 1..(n + 1) : order[i] \in V!Whole(d)
  BY <1>1, <1>2, <1>5
<1> QED
  BY <1>6, <1>7 DEF V!ToSet, n, order

\* What is complete and undamaged is whole; one that lacks the backend is damaged or nothing.
LEMMA CompleteIsWhole ==
    ASSUME EnvironmentsInv, NEW d \in V!Directories, d \notin vDamaged,
           V!Complete(d) \/ \E piece \in AllParts : piece \in vTarget[d]
    PROVE  vTarget[d] = V!Whole(d)
  BY DEF EnvironmentsInv, WholeOrNothing, V!Complete

LEMMA EnvironmentsKeep == ASSUME EnvironmentsInv, V!Next PROVE EnvironmentsInv'
<1>1. /\ VTypes /\ LockInv /\ WholeOrNothing /\ V!EnvironmentInUseIsWhole
      /\ vTarget \in [V!Directories -> SUBSET AllParts]
      /\ vTemporary \in [V!Processes -> SUBSET AllParts]
      /\ vStep \in [V!Processes -> Steps]
      /\ vLock \in [V!Directories -> V!Processes \cup {0}]
      /\ vPython \in [V!Processes -> {"base", "managed"}]
      /\ \A d \in V!Directories : vTarget[d] \subseteq V!Whole(d)
      /\ \A p \in V!Processes : vTemporary[p] \subseteq V!Whole(V!Directory(p))
  BY DEF EnvironmentsInv, VTypes, V!TypeOK, V!Nobody
<1>2. /\ \A p \in V!Processes : V!Directory(p) \in V!Directories /\ p # 0
      /\ \A d \in V!Directories : V!Whole(d) \subseteq AllParts
  BY WholeIs, ProcessesAssumption DEF V!Processes
<1> DEFINE KeepsLock == /\ vLock' \in [V!Directories -> V!Processes \cup {0}]
                        /\ vStep' \in [V!Processes -> Steps] /\ LockInv'
           KeepsParts == /\ vTarget' \in [V!Directories -> SUBSET AllParts]
                         /\ \A d \in V!Directories : vTarget'[d] \subseteq V!Whole(d)
                         /\ vDamaged' \subseteq V!Directories /\ WholeOrNothing'
           KeepsBuilt == /\ vTemporary' \in [V!Processes -> SUBSET AllParts]
                         /\ \A p \in V!Processes : vTemporary'[p] \subseteq V!Whole(V!Directory(p))
           KeepsPython == vPython' \in [V!Processes -> {"base", "managed"}]
           KeepsUse == V!EnvironmentInUseIsWhole'
           KeepsRest == vBase' \in BOOLEAN /\ vDamages' \in 0..MaxDamages /\ faults' \in 0..MaxFaults
<1>3. SUFFICES KeepsLock /\ KeepsParts /\ KeepsBuilt /\ KeepsPython /\ KeepsUse /\ KeepsRest
  BY DEF EnvironmentsInv, VTypes, V!TypeOK, V!Nobody
<1> HIDE DEF KeepsLock, KeepsParts, KeepsBuilt, KeepsPython, KeepsUse, KeepsRest
<1>4. ASSUME UNCHANGED vTarget, UNCHANGED vDamaged,
             \A p \in V!Processes : vStep'[p] = "remove" => vStep[p] = "remove"
      PROVE  KeepsParts
  BY <1>1, <1>4 DEF KeepsParts, WholeOrNothing, VTypes, V!TypeOK
<1>4a. ASSUME NEW p \in V!Processes, NEW to, to # "remove", vStep' = [vStep EXCEPT ![p] = to],
              UNCHANGED vTarget, UNCHANGED vDamaged
       PROVE  KeepsParts
  BY <1>1, <1>4, <1>4a
<1>5. UNCHANGED vTemporary => KeepsBuilt
  BY <1>1 DEF KeepsBuilt
<1>6. UNCHANGED vPython => KeepsPython
  BY <1>1 DEF KeepsPython
<1>7. ASSUME UNCHANGED vBase, UNCHANGED vDamages, faults' = faults \/ (faults > 0 /\ faults' = faults - 1)
      PROVE  KeepsRest
  BY <1>1, <1>7, DamagesAssumption DEF KeepsRest, VTypes, V!TypeOK
\* A process goes from one step to another with the lock as it is.
<1>8. ASSUME NEW p \in V!Processes, NEW to \in Steps, vStep' = [vStep EXCEPT ![p] = to],
             UNCHANGED vLock,
             to \in {"locked", "remove", "build"} <=> vStep[p] \in {"locked", "remove", "build"},
             to # "start", to \in {"check", "recheck"} => p \in Doctors,
             \A q \in V!Processes \ {p} : vPython'[q] = vPython[q]
      PROVE  KeepsLock
  BY <1>1, <1>2, <1>8 DEF KeepsLock, LockInv
\* Nobody but a process that gets to use its directory uses more than before.
<1>9. ASSUME NEW p \in V!Processes, NEW to, vStep' = [vStep EXCEPT ![p] = to],
             \A q \in V!Processes \ {p} : vPython'[q] = vPython[q],
             UNCHANGED vTarget, UNCHANGED vDamaged,
             \/ to # "use" \/ (p \in Doctors /\ vPython'[p] # "managed")
             \/ V!Directory(p) \in vDamaged
             \/ vTarget[V!Directory(p)] = V!Whole(V!Directory(p))
      PROVE  KeepsUse
  BY <1>1, <1>2, <1>9 DEF KeepsUse, V!EnvironmentInUseIsWhole, V!Using, V!At
<1>10. \A p : p \in Doctors => V!Directory(p) = "validation"
  BY DEF V!Directory
<1>11. \A p : p \notin Doctors => V!Directory(p) = "dependencies"
  BY DEF V!Directory
<1>12. /\ "validation" \in V!Directories /\ "dependencies" \in V!Directories
       /\ {"python", "backend", ".complete"} \subseteq AllParts
  BY DEF V!Directories, AllParts
<1>13. ASSUME NEW p \in V!Processes, V!Look(p)
       PROVE  KeepsLock /\ KeepsParts /\ KeepsBuilt /\ KeepsPython /\ KeepsUse /\ KeepsRest
  <2>1. /\ p \in Doctors /\ vStep[p] = "start" /\ vStep' = [vStep EXCEPT ![p] = "check"]
        /\ \E python \in {"managed", "base"} : vPython' = [vPython EXCEPT ![p] = python]
        /\ UNCHANGED <<vTarget, vTemporary, vLock, vDamaged, vBase, vDamages, faults>>
    BY <1>13 DEF V!Look, V!At, V!Go, V!outside
  <2>2. /\ KeepsPython /\ \A q \in V!Processes \ {p} : vPython'[q] = vPython[q]
    BY <1>1, <2>1 DEF KeepsPython
  <2>3. KeepsLock
    BY <1>8, <2>1, <2>2 DEF Steps
  <2>4. KeepsUse
    BY <1>9, <2>1, <2>2
  <2> QED
    BY <1>4a, <1>5, <1>7, <2>1, <2>2, <2>3, <2>4
<1>14. ASSUME NEW p \in V!Processes, V!Check(p)
       PROVE  KeepsLock /\ KeepsParts /\ KeepsBuilt /\ KeepsPython /\ KeepsUse /\ KeepsRest
  <2>1. PICK to \in {"use", "wait"} :
           /\ vStep[p] = "check" /\ vStep' = [vStep EXCEPT ![p] = to]
           /\ to = "use" => V!HasBackend(p)
           /\ UNCHANGED <<vTarget, vTemporary, vLock, vPython, vDamaged, vBase, vDamages, faults>>
    BY <1>14 DEF V!Check, V!At, V!Go, V!outside
  <2>2. p \in Doctors
    BY <1>1, <2>1 DEF LockInv
  <2>3. ASSUME to = "use", vPython'[p] = "managed", V!Directory(p) \notin vDamaged
        PROVE  vTarget[V!Directory(p)] = V!Whole(V!Directory(p))
    <3>1. "backend" \in vTarget["validation"]
      BY <2>1, <2>3 DEF V!HasBackend
    <3> QED
      BY <1>2, <1>10, <1>12, <2>2, <2>3, <3>1, CompleteIsWhole
  <2>4. KeepsLock
    BY <1>8, <2>1 DEF Steps
  <2>5. KeepsUse
    BY <1>9, <2>1, <2>2, <2>3
  <2> QED
    BY <1>4a, <1>5, <1>6, <1>7, <2>1, <2>4, <2>5
<1>15. ASSUME NEW p \in V!Processes, V!Start(p)
       PROVE  KeepsLock /\ KeepsParts /\ KeepsBuilt /\ KeepsPython /\ KeepsUse /\ KeepsRest
  <2>1. PICK to \in {"use", "wait"} :
           /\ vStep[p] = "start" /\ vStep' = [vStep EXCEPT ![p] = to]
           /\ to = "use" => V!Complete("dependencies")
           /\ UNCHANGED <<vTarget, vTemporary, vLock, vPython, vDamaged, vBase, vDamages, faults>>
    BY <1>15 DEF V!Start, V!At, V!Go, V!outside
  <2>2. vPython[p] = "base"
    BY <1>1, <2>1 DEF LockInv
  <2>3. ASSUME to = "use", p \notin Doctors, V!Directory(p) \notin vDamaged
        PROVE  vTarget[V!Directory(p)] = V!Whole(V!Directory(p))
    BY <1>11, <1>12, <2>1, <2>3, CompleteIsWhole
  <2>4. KeepsLock
    BY <1>8, <2>1 DEF Steps
  <2>5. KeepsUse
    BY <1>9, <2>1, <2>2, <2>3
  <2> QED
    BY <1>4a, <1>5, <1>6, <1>7, <2>1, <2>4, <2>5
<1>16. ASSUME NEW p \in V!Processes, V!Acquire(p)
       PROVE  KeepsLock /\ KeepsParts /\ KeepsBuilt /\ KeepsPython /\ KeepsUse /\ KeepsRest
  <2>1. /\ vStep[p] = "wait" /\ vStep' = [vStep EXCEPT ![p] = "locked"]
        /\ vLock[V!Directory(p)] = 0 /\ vLock' = [vLock EXCEPT ![V!Directory(p)] = p]
        /\ UNCHANGED <<vTarget, vTemporary, vPython, vDamaged, vBase, vDamages, faults>>
    BY <1>16 DEF V!Acquire, V!At, V!Go, V!outside, V!Nobody
  <2>2. vLock' \in [V!Directories -> V!Processes \cup {0}] /\ vStep' \in [V!Processes -> Steps]
    BY <1>1, <2>1 DEF Steps
  <2>3. LockInv'
    BY <1>1, <1>2, <2>1 DEF LockInv
  <2>4. KeepsUse
    BY <1>9, <2>1
  <2> QED
    BY <1>4a, <1>5, <1>6, <1>7, <2>1, <2>2, <2>3, <2>4 DEF KeepsLock
\* A process leaves the lock.
<1>17. ASSUME NEW p \in V!Processes, NEW to \in {"use", "recheck", "failed", "done"},
              vStep[p] \in {"locked", "remove", "build"}, V!Leave(p, to), UNCHANGED vPython,
              to = "recheck" => p \in Doctors
       PROVE  KeepsLock
  <2>1. /\ vStep' = [vStep EXCEPT ![p] = to]
        /\ vLock' = [vLock EXCEPT ![V!Directory(p)] = 0]
    BY <1>17 DEF V!Leave, V!Go, V!Nobody
  <2>2. vLock' \in [V!Directories -> V!Processes \cup {0}] /\ vStep' \in [V!Processes -> Steps]
    BY <1>1, <2>1 DEF Steps
  <2>3. LockInv'
    BY <1>1, <1>2, <1>17, <2>1 DEF LockInv
  <2> QED
    BY <2>2, <2>3 DEF KeepsLock
<1>18. ASSUME NEW p \in V!Processes, V!Found(p)
       PROVE  KeepsLock /\ KeepsParts /\ KeepsBuilt /\ KeepsPython /\ KeepsUse /\ KeepsRest
  <2>1. PICK to \in {"use", "recheck"} :
           /\ vStep[p] = "locked" /\ V!Leave(p, to) /\ V!Complete(V!Directory(p))
           /\ to = "recheck" <=> p \in Doctors
           /\ UNCHANGED <<vTarget, vTemporary, vPython, vDamaged, vBase, vDamages, faults>>
    BY <1>18 DEF V!Found, V!At, V!outside
  <2>2. KeepsLock
    BY <1>17, <2>1
  <2>3. KeepsUse
    BY <1>2, <1>9, <2>1, CompleteIsWhole DEF V!Leave, V!Go
  <2> QED
    BY <1>4a, <1>5, <1>6, <1>7, <2>1, <2>2, <2>3 DEF V!Leave, V!Go
<1>19. ASSUME NEW p \in V!Processes, V!RemoveParts(p)
       PROVE  KeepsLock /\ KeepsParts /\ KeepsBuilt /\ KeepsPython /\ KeepsUse /\ KeepsRest
  <2> DEFINE d == V!Directory(p)
  <2>1. /\ vStep[p] \in {"locked", "remove"}
        /\ vStep[p] = "locked" =>
             ~V!Complete(d) \/ (p \in Doctors /\ "backend" \notin vTarget["validation"])
        /\ UNCHANGED <<vTemporary, vLock, vPython, vDamaged, vBase, vDamages, faults>>
    BY <1>19 DEF V!RemoveParts, V!At, V!outside
  <2>2. CASE vTarget[d] = {} /\ vStep' = [vStep EXCEPT ![p] = "build"] /\ UNCHANGED vTarget
    <3>1. KeepsLock
      BY <1>8, <2>1, <2>2 DEF Steps
    <3>2. KeepsUse
      BY <1>9, <2>1, <2>2
    <3> QED
      BY <1>4a, <1>5, <1>6, <1>7, <2>1, <2>2, <3>1, <3>2
  <2>3. ASSUME NEW piece \in vTarget[d], vTarget' = [vTarget EXCEPT ![d] = @ \ {piece}],
               vStep' = [vStep EXCEPT ![p] = "remove"]
        PROVE  KeepsLock /\ KeepsParts /\ KeepsBuilt /\ KeepsPython /\ KeepsUse /\ KeepsRest
    <3>1. d \in V!Directories /\ piece \in AllParts
      BY <1>1, <1>2, <2>3
    <3>2. d \in vDamaged
      <4> SUFFICES ASSUME d \notin vDamaged PROVE FALSE
        OBVIOUS
      <4>1. vTarget[d] = V!Whole(d)
        BY <2>3, <3>1, CompleteIsWhole
      <4>2. vStep[p] = "locked"
        BY <1>1, <2>1, <2>3 DEF WholeOrNothing
      <4>3. V!Complete(d) /\ (p \in Doctors => "backend" \in vTarget["validation"])
        BY <1>10, <3>1, <4>1, WholeIs DEF V!Complete, V!Directories
      <4> QED
        BY <2>1, <4>2, <4>3
    <3>3. KeepsLock
      BY <1>8, <2>1, <2>3 DEF Steps
    <3>4. /\ vTarget' \in [V!Directories -> SUBSET AllParts]
          /\ vTarget'[d] = vTarget[d] \ {piece}
          /\ \A e \in V!Directories \ {d} : vTarget'[e] = vTarget[e]
      BY <1>1, <2>3, <3>1
    <3>5. KeepsParts
      BY <1>1, <1>2, <2>1, <2>3, <3>1, <3>2, <3>4 DEF KeepsParts, WholeOrNothing, VTypes, V!TypeOK
    <3>6. KeepsUse
      BY <1>1, <1>2, <2>1, <2>3, <3>1, <3>2, <3>4
         DEF KeepsUse, V!EnvironmentInUseIsWhole, V!Using, V!At
    <3> QED
      BY <1>5, <1>6, <1>7, <2>1, <3>3, <3>5, <3>6
  <2> QED
    BY <1>19, <2>2, <2>3 DEF V!RemoveParts, V!Go
<1>20. ASSUME NEW p \in V!Processes, V!Build(p)
       PROVE  KeepsLock /\ KeepsParts /\ KeepsBuilt /\ KeepsPython /\ KeepsUse /\ KeepsRest
  <2>1. /\ vTemporary[p] # V!Whole(V!Directory(p))
        /\ vTemporary' = [vTemporary EXCEPT ![p] =
              V!ToSet(SubSeq(V!Order[V!Directory(p)], 1, V!Cardinality(vTemporary[p]) + 1))]
        /\ UNCHANGED <<vTarget, vLock, vStep, vPython, vDamaged, vBase, vDamages, faults>>
    BY <1>20 DEF V!Build, V!outside
  <2>2. PICK built \in SUBSET V!Whole(V!Directory(p)) :
           vTemporary' = [vTemporary EXCEPT ![p] = built]
    BY <1>1, <2>1, BuiltParts
  <2>3. KeepsBuilt
    BY <1>1, <1>2, <2>2 DEF KeepsBuilt
  <2>4. KeepsLock
    BY <1>1, <2>1 DEF KeepsLock, LockInv
  <2>5. KeepsUse
    BY <1>1, <2>1 DEF KeepsUse, V!EnvironmentInUseIsWhole, V!Using, V!At
  <2> QED
    BY <1>4, <1>6, <1>7, <2>1, <2>3, <2>4, <2>5
<1>21. ASSUME NEW p \in V!Processes, V!Publish(p)
       PROVE  KeepsLock /\ KeepsParts /\ KeepsBuilt /\ KeepsPython /\ KeepsUse /\ KeepsRest
  <2> DEFINE d == V!Directory(p)
  <2>1. PICK to \in {"use", "recheck"} :
           /\ vStep[p] = "build" /\ V!Leave(p, to) /\ (to = "recheck" <=> p \in Doctors)
           /\ vTarget' = [vTarget EXCEPT ![d] = V!Whole(d)]
           /\ vTemporary' = [vTemporary EXCEPT ![p] = {}] /\ vDamaged' = vDamaged \ {d}
           /\ UNCHANGED <<vPython, vBase, vDamages, faults>>
    BY <1>21 DEF V!Publish, V!At
  <2>2. KeepsLock
    BY <1>17, <2>1
  <2>3. KeepsBuilt
    BY <1>1, <1>2, <2>1 DEF KeepsBuilt
  <2>4. /\ vTarget' \in [V!Directories -> SUBSET AllParts] /\ vTarget'[d] = V!Whole(d)
        /\ \A e \in V!Directories \ {d} : vTarget'[e] = vTarget[e]
    BY <1>1, <1>2, <2>1
  <2>5. vStep' = [vStep EXCEPT ![p] = to]
    BY <2>1 DEF V!Leave, V!Go
  <2>6. \A q \in V!Processes : vStep'[q] = "remove" => vStep[q] = "remove" /\ V!Directory(q) # d
    BY <1>1, <2>1, <2>5 DEF LockInv
  <2>7. KeepsParts
    BY <1>1, <1>2, <2>1, <2>4, <2>6 DEF KeepsParts, WholeOrNothing, VTypes, V!TypeOK
  <2>8. KeepsUse
    BY <1>1, <1>2, <2>1, <2>4, <2>5 DEF KeepsUse, V!EnvironmentInUseIsWhole, V!Using, V!At
  <2> QED
    BY <1>6, <1>7, <2>1, <2>2, <2>3, <2>7, <2>8
<1>22. ASSUME NEW p \in V!Processes, V!Fail(p)
       PROVE  KeepsLock /\ KeepsParts /\ KeepsBuilt /\ KeepsPython /\ KeepsUse /\ KeepsRest
  <2>1. /\ vStep[p] = "build" /\ V!Leave(p, "failed") /\ faults > 0 /\ faults' = faults - 1
        /\ vTemporary' = [vTemporary EXCEPT ![p] = {}]
        /\ UNCHANGED <<vTarget, vPython, vDamaged, vBase, vDamages>>
    BY <1>22 DEF V!Fail, V!At, V!outside
  <2>2. KeepsBuilt
    BY <1>1, <1>2, <2>1 DEF KeepsBuilt
  <2>3. vStep' = [vStep EXCEPT ![p] = "failed"]
    BY <2>1 DEF V!Leave, V!Go
  <2>4. KeepsUse
    BY <1>9, <2>1, <2>3
  <2>5. KeepsLock
    BY <1>17, <2>1
  <2> QED
    BY <1>4a, <1>6, <1>7, <2>1, <2>2, <2>3, <2>4, <2>5
<1>23. ASSUME NEW p \in V!Processes, V!Recheck(p)
       PROVE  KeepsLock /\ KeepsParts /\ KeepsBuilt /\ KeepsPython /\ KeepsUse /\ KeepsRest
  <2>1. PICK to \in {"use", "failed"} :
           /\ vStep[p] = "recheck" /\ vStep' = [vStep EXCEPT ![p] = to]
           /\ vPython' = [vPython EXCEPT ![p] = "managed"]
           /\ to = "use" => "backend" \in vTarget["validation"]
           /\ UNCHANGED <<vTarget, vTemporary, vLock, vDamaged, vBase, vDamages, faults>>
    BY <1>23 DEF V!Recheck, V!At, V!Go, V!outside
  <2>2. p \in Doctors
    BY <1>1, <2>1 DEF LockInv
  <2>3. KeepsPython /\ \A q \in V!Processes \ {p} : vPython'[q] = vPython[q]
    BY <1>1, <2>1 DEF KeepsPython
  <2>4. KeepsLock
    BY <1>8, <2>1, <2>3 DEF Steps
  <2>5. to = "use" /\ V!Directory(p) \notin vDamaged
          => vTarget[V!Directory(p)] = V!Whole(V!Directory(p))
    BY <1>10, <1>12, <2>1, <2>2, CompleteIsWhole
  <2>6. KeepsUse
    BY <1>9, <2>1, <2>3, <2>5
  <2> QED
    BY <1>4a, <1>5, <1>7, <2>1, <2>3, <2>4, <2>6
<1>24. ASSUME NEW p \in V!Processes, V!End(p)
       PROVE  KeepsLock /\ KeepsParts /\ KeepsBuilt /\ KeepsPython /\ KeepsUse /\ KeepsRest
  <2>1. /\ vStep[p] \in {"use", "failed"} /\ vStep' = [vStep EXCEPT ![p] = "done"]
        /\ UNCHANGED <<vTarget, vTemporary, vLock, vPython, vDamaged, vBase, vDamages, faults>>
    BY <1>24 DEF V!End, V!At, V!Go, V!outside
  <2>2. KeepsLock
    BY <1>8, <2>1 DEF Steps
  <2>3. KeepsUse
    BY <1>9, <2>1
  <2> QED
    BY <1>4a, <1>5, <1>6, <1>7, <2>1, <2>2, <2>3
<1>24a. ASSUME NEW p \in V!Processes, V!CheckFails(p)
        PROVE  KeepsLock /\ KeepsParts /\ KeepsBuilt /\ KeepsPython /\ KeepsUse /\ KeepsRest
  <2>1. /\ p \in Doctors /\ faults > 0 /\ faults' = faults - 1
        /\ vPython' = vPython \/ vPython' = [vPython EXCEPT ![p] = "managed"]
        /\ UNCHANGED <<vTarget, vTemporary, vBase, vDamages>>
    BY <1>24a DEF V!CheckFails, V!At, V!Go, V!Leave
  <2>2. KeepsPython /\ \A q \in V!Processes \ {p} : vPython'[q] = vPython[q]
    BY <1>1, <2>1 DEF KeepsPython
  <2>3. KeepsBuilt /\ KeepsRest
    BY <1>5, <1>7, <2>1
  <2>4. ASSUME NEW to \in {"wait", "failed"}, vStep' = [vStep EXCEPT ![p] = to],
               UNCHANGED vDamaged
        PROVE  KeepsParts /\ KeepsUse
    <3>1. KeepsParts
      BY <1>4a, <2>1, <2>4
    <3>2. KeepsUse
      BY <1>9, <2>1, <2>2, <2>4
    <3> QED
      BY <3>1, <3>2
  <2>5. ASSUME vStep[p] = "check", vStep' = [vStep EXCEPT ![p] = "wait"],
               UNCHANGED <<vLock, vDamaged>>
        PROVE  KeepsLock /\ KeepsParts /\ KeepsUse
    <3>1. KeepsLock
      BY <1>8, <2>2, <2>5 DEF Steps
    <3> QED
      BY <2>4, <2>5, <3>1
  <2>6. ASSUME vStep[p] = "recheck", vStep' = [vStep EXCEPT ![p] = "failed"],
               UNCHANGED <<vLock, vDamaged>>
        PROVE  KeepsLock /\ KeepsParts /\ KeepsUse
    <3>1. KeepsLock
      BY <1>8, <2>2, <2>6 DEF Steps
    <3> QED
      BY <2>4, <2>6, <3>1
  <2>7. ASSUME vStep[p] = "locked", V!Leave(p, "failed"), UNCHANGED <<vDamaged, vPython>>
        PROVE  KeepsLock /\ KeepsParts /\ KeepsUse
    <3>1. KeepsLock
      BY <1>17, <2>7
    <3>2. vStep' = [vStep EXCEPT ![p] = "failed"]
      BY <2>7 DEF V!Leave, V!Go
    <3> QED
      BY <2>4, <2>7, <3>1, <3>2
  <2>8. ASSUME vStep[p] = "locked", vStep' = [vStep EXCEPT ![p] = "remove"],
               vDamaged' = vDamaged \cup {"validation"}, UNCHANGED <<vLock, vPython>>
        PROVE  KeepsLock /\ KeepsParts /\ KeepsUse
    <3>1. KeepsLock
      BY <1>8, <2>2, <2>8 DEF Steps
    <3>2. V!Directory(p) \in vDamaged' /\ vDamaged' \subseteq V!Directories
      BY <1>1, <1>10, <1>12, <2>1, <2>8 DEF VTypes, V!TypeOK
    <3>3. KeepsParts
      BY <1>1, <2>1, <2>8, <3>2 DEF KeepsParts, WholeOrNothing
    <3>4. KeepsUse
      BY <1>1, <1>2, <2>1, <2>8 DEF KeepsUse, V!EnvironmentInUseIsWhole, V!Using, V!At
    <3> QED
      BY <3>1, <3>3, <3>4
  <2>9. \/ /\ vStep[p] = "check" /\ vStep' = [vStep EXCEPT ![p] = "wait"]
           /\ UNCHANGED <<vLock, vDamaged>>
        \/ /\ vStep[p] = "recheck" /\ vStep' = [vStep EXCEPT ![p] = "failed"]
           /\ UNCHANGED <<vLock, vDamaged>>
        \/ vStep[p] = "locked" /\ V!Leave(p, "failed") /\ UNCHANGED <<vDamaged, vPython>>
        \/ /\ vStep[p] = "locked" /\ vStep' = [vStep EXCEPT ![p] = "remove"]
           /\ vDamaged' = vDamaged \cup {"validation"} /\ UNCHANGED <<vLock, vPython>>
    BY <1>24a DEF V!CheckFails, V!At, V!Go
  <2> QED
    BY <2>2, <2>3, <2>5, <2>6, <2>7, <2>8, <2>9
<1>25. ASSUME NEW p \in V!Processes, V!Crash(p)
       PROVE  KeepsLock /\ KeepsParts /\ KeepsBuilt /\ KeepsPython /\ KeepsUse /\ KeepsRest
  <2>1. /\ vStep[p] \in {"wait", "locked", "remove", "build"} /\ faults > 0 /\ faults' = faults - 1
        /\ vTemporary' = [vTemporary EXCEPT ![p] = {}] /\ vStep' = [vStep EXCEPT ![p] = "done"]
        /\ vLock' = [d \in V!Directories |-> IF vLock[d] = p THEN 0 ELSE vLock[d]]
        /\ UNCHANGED <<vTarget, vPython, vDamaged, vBase, vDamages>>
    BY <1>25 DEF V!Crash, V!Go, V!outside, V!Nobody
  <2>2. KeepsBuilt
    BY <1>1, <1>2, <2>1 DEF KeepsBuilt
  <2>3. vLock' \in [V!Directories -> V!Processes \cup {0}] /\ vStep' \in [V!Processes -> Steps]
    BY <1>1, <2>1 DEF Steps
  <2>4. LockInv'
    BY <1>1, <1>2, <2>1 DEF LockInv
  <2>5. KeepsUse
    BY <1>9, <2>1
  <2> QED
    BY <1>4a, <1>6, <1>7, <2>1, <2>2, <2>3, <2>4, <2>5 DEF KeepsLock
<1>26. ASSUME NEW d \in V!Directories, V!Damage(d)
       PROVE  KeepsLock /\ KeepsParts /\ KeepsBuilt /\ KeepsPython /\ KeepsUse /\ KeepsRest
  <2>1. /\ vDamages > 0 /\ vDamages' = vDamages - 1 /\ vDamaged' = vDamaged \cup {d}
        /\ \E piece \in vTarget[d] : vTarget' = [vTarget EXCEPT ![d] = @ \ {piece}]
        /\ UNCHANGED <<vTemporary, vLock, vStep, vPython, vBase, faults>>
    BY <1>26 DEF V!Damage
  <2>2. /\ vTarget' \in [V!Directories -> SUBSET AllParts] /\ vTarget'[d] \subseteq vTarget[d]
        /\ \A e \in V!Directories \ {d} : vTarget'[e] = vTarget[e]
    BY <1>1, <2>1
  <2>3. KeepsParts
    BY <1>1, <2>1, <2>2 DEF KeepsParts, WholeOrNothing, VTypes, V!TypeOK
  <2>4. KeepsLock
    BY <1>1, <2>1 DEF KeepsLock, LockInv
  <2>5. KeepsUse
    BY <1>1, <1>2, <2>1, <2>2 DEF KeepsUse, V!EnvironmentInUseIsWhole, V!Using, V!At
  <2>6. KeepsRest
    BY <1>1, <2>1, DamagesAssumption DEF KeepsRest, VTypes, V!TypeOK
  <2> QED
    BY <1>5, <1>6, <2>1, <2>3, <2>4, <2>5, <2>6
<1> QED
  BY <1>13, <1>14, <1>15, <1>16, <1>18, <1>19, <1>20, <1>21, <1>22, <1>23, <1>24, <1>24a,
     <1>25, <1>26
     DEF V!Next, V!ProcessNext

LEMMA EnvironmentsBegin == ASSUME V!Init PROVE EnvironmentsInv
<1>1. /\ vTarget = [d \in V!Directories |-> {}] /\ vTemporary = [p \in V!Processes |-> {}]
      /\ vLock = [d \in V!Directories |-> 0] /\ vStep = [p \in V!Processes |-> "start"]
      /\ vPython = [p \in V!Processes |-> "base"] /\ vBase \in BOOLEAN
      /\ vDamaged = {} /\ faults = MaxFaults /\ vDamages = MaxDamages
  BY DEF V!Init, V!Nobody
<1>2. \A p \in V!Processes : V!Directory(p) \in V!Directories /\ p # 0
  BY WholeIs, ProcessesAssumption DEF V!Processes
<1>3. VTypes
  BY <1>1, DamagesAssumption DEF VTypes, V!TypeOK, Steps, V!Nobody
<1> QED
  BY <1>1, <1>2, <1>3
     DEF EnvironmentsInv, LockInv, WholeOrNothing, V!EnvironmentInUseIsWhole, V!Using, V!At

-----------------------------------------------------------------------------
(* The installation.                                                       *)

LEMMA MigrationGoesOn ==
    ASSUME Overlap = FALSE, Leftovers = FALSE
    PROVE  MigrationInv /\ [MCNext]_allVars => MigrationInv'
<1>1. CASE G!Next /\ MigrationInv
  BY <1>1, MigrationKeeps
<1>2. CASE UNCHANGED migration /\ MigrationInv
  BY <1>2, MigrationStays
<1> QED
  BY <1>1, <1>2 DEF MCNext, allVars, installation, InReviews, InLineage, InEvolution, InCuration,
     InLearning, InMemory, InMigration, InPrivateState, InEnvironments, InQuotaWarnings,
     InOutbound, InSlackUpload, InSlackIntake

\* One host may go on with the agent's newest state, whatever export, import or start of a
\* daemon failed or was interrupted between two writes, where no daemon is started during a
\* command and no bundle is imported that a failed export left in its place; an upgrade of the
\* private state loses nothing that the daemon wrote, and a manifest tells the truth; an
\* environment in use is whole whatever other processes do, unless it was damaged or a check
\* took it for broken (export_migration_bundle, import_migration_bundle, begin_daemon_epoch,
\* migrate_private_state, ensure_validation_environment).
THEOREM StateAlwaysSurvives ==
    ASSUME Overlap = FALSE, Leftovers = FALSE
    PROVE  MCSpec => []StateSurvives
<1> DEFINE Inv == /\ MigrationInv /\ PrivateInv
                  /\ part = "environments" => EnvironmentsInv
<1>1. MCInit => Inv
  BY MigrationBegins, PrivateBegins, EnvironmentsBegin DEF MCInit
<1>2. MigrationInv /\ [MCNext]_allVars => MigrationInv'
  BY MigrationGoesOn
<1>3. PrivateInv /\ [MCNext]_allVars => PrivateInv'
  <2>1. CASE T!Next /\ PrivateInv
    BY <2>1, PrivateKeeps
  <2>2. CASE UNCHANGED private /\ PrivateInv
    BY <2>2 DEF private, PrivateInv, TTypes, UpgradeInv, T!UpgradeIsSafe, T!Outdated
  <2> QED
    BY <2>1, <2>2 DEF MCNext, allVars, installation, InReviews, InLineage, InEvolution, InCuration,
       InLearning, InMemory, InMigration, InPrivateState, InEnvironments, InQuotaWarnings,
       InOutbound, InSlackUpload, InSlackIntake
<1>4. (part = "environments" => EnvironmentsInv) /\ [MCNext]_allVars
        => (part = "environments" => EnvironmentsInv)'
  <2>1. CASE V!Next /\ EnvironmentsInv
    BY <2>1, EnvironmentsKeep
  <2>2. CASE UNCHANGED <<environments, faults>> /\ EnvironmentsInv
    BY <2>2 DEF environments, EnvironmentsInv, VTypes, V!TypeOK, LockInv, WholeOrNothing,
                V!EnvironmentInUseIsWhole, V!Using, V!At
  <2>3. CASE part # "environments" /\ UNCHANGED part
    BY <2>3
  <2>4. [MCNext]_allVars =>
          \/ part = "environments" /\ V!Next
          \/ part # "environments" /\ UNCHANGED part
          \/ UNCHANGED <<environments, faults, part>>
    BY DEF MCNext, allVars, installation, InReviews, InLineage, InEvolution, InCuration,
       InLearning, InMemory, InMigration, InPrivateState, InEnvironments, InQuotaWarnings,
       InOutbound, InSlackUpload, InSlackIntake
  <2> QED
    BY <2>1, <2>2, <2>3, <2>4
<1>5. Inv => StateSurvives
  <2>1. EnvironmentsInv => V!TypeOK /\ V!EnvironmentInUseIsWhole
    BY DEF EnvironmentsInv, VTypes
  <2> QED
    BY <2>1, MigrationIsSafe, PrivateIsSafe DEF StateSurvives
<1> QED
  BY <1>1, <1>2, <1>3, <1>4, <1>5, PTL DEF MCSpec

-----------------------------------------------------------------------------
-----------------------------------------------------------------------------
(* Lineage.                                                                *)

\* Types, whoever is at work.
Known0 == [status : {"unknown", "pending", "ignored", "linked", "adopted"}, diff : BOOLEAN,
           judged : {"pending", "failed", "assessed"}, seen : BOOLEAN, task : 0..MaxEvents]
Inbox0 == [cursor : 0..MaxChanges, candidates : [L!Changes -> Known0]]
LTask == [change : L!Changes, event : 1..MaxEvents, status : {"active", "cancelled", "landed"}]
LHandler == [at : {"none", "command", "scan", "merge", "save", "enqueue", "link", "turn"},
             change : 0..MaxChanges, event : 0..MaxEvents, latest : 0..MaxChanges,
             copy : Inbox0]
LWorker == [at : {"none", "batch", "answer", "update", "finish", "failed"},
            todo : SUBSET L!Changes, diffs : SUBSET L!Changes, change : 0..MaxChanges,
            judged : {"pending", "failed", "assessed"}]
LQueue == [status : {"none", "pending", "running"}, owner : 0..MaxDaemons,
           changes : SUBSET L!Changes]

LTypes ==
    /\ lParent \in [head : 0..MaxChanges, merges : SUBSET L!Changes]
    /\ lInbox \in Inbox0 /\ lQueue \in LQueue /\ lTasks \in Seq(LTask)
    /\ lEpoch \in L!Daemons /\ lEvents \in 0..MaxEvents
    /\ lHandler \in [L!Daemons -> LHandler] /\ lWorker \in [L!Daemons -> LWorker]
    /\ lAgain \subseteq L!Changes \X (1..MaxEvents) /\ lOverlapped \in BOOLEAN

TasksInv == \A t, u \in DOMAIN lTasks : lTasks[t].event = lTasks[u].event => t = u

\* Every change up to the cursor is there, by itself or in its pull request.
InboxIsComplete ==
    \A c \in 1..lInbox.cursor :
        \E m \in L!Changes : c \in L!CommitsOf(m) /\ lInbox.candidates[m].status # "unknown"
CopyIsComplete(d) ==
    \A c \in 1..lHandler[d].copy.cursor :
        \E m \in L!Changes : c \in L!CommitsOf(m) /\ lHandler[d].copy.candidates[m].status # "unknown"

\* What a command and a worker know, whichever daemon they belong to.
HandlerInv(d) ==
    /\ lHandler[d].event # 0 => lHandler[d].change \in L!Changes
    /\ lHandler[d].at \in {"command", "link"} => lHandler[d].event # 0
    /\ lHandler[d].at \in {"none", "turn"} => lHandler[d].event = 0
    /\ lHandler[d].at = "link" => L!Assigned(lHandler[d].event)
    /\ lHandler[d].latest <= lParent.head
WorkerInv(d) ==
    lWorker[d].at \in {"answer", "update"} => lWorker[d].change \in L!Changes \ lWorker[d].todo

\* The changes that the worker has still to judge.
Ahead(d) ==
    {c \in L!Changes : \/ c \in lWorker[d].todo
                       \/ (c = lWorker[d].change /\ lWorker[d].at \in {"answer", "update"})}

Follows(old, new) ==
    /\ new.status = old.status \/ (old.status = "unknown" /\ new.status = "pending")
    /\ new.judged = "assessed" => new.seen = new.diff

\* Where no replaced daemon went on, one handler and one worker are at work: a scan and
\* a worker exclude each other, and nothing else changes what they have read.
ScanAlone(d) ==
    /\ lHandler[d].at \in {"merge", "save"} => lQueue.status = "none"
    /\ lHandler[d].at = "merge" => lHandler[d].copy = lInbox
    /\ lHandler[d].at = "save" =>
         \A c \in L!Changes : Follows(lInbox.candidates[c], lHandler[d].copy.candidates[c])
    /\ lWorker[d].at # "none" => lQueue.status # "none"

JudgesAlone(d) ==
    lWorker[d].at # "none" =>
        \A c \in Ahead(d) : /\ c \in lWorker[d].diffs <=> lInbox.candidates[c].diff
                            /\ lInbox.candidates[c].judged # "assessed"

\* The task that a command made is linked, or will be, by the command or by its repetition.
LinkedYet(t) == lInbox.candidates[lTasks[t].change].status \in {"linked", "adopted"}
LinkedSoon(d, t) ==
    /\ lInbox.candidates[lTasks[t].change].status \in {"pending", "ignored"}
    /\ lInbox.candidates[lTasks[t].change].judged = "assessed"
    /\ \/ <<lTasks[t].change, lTasks[t].event>> \in lAgain
       \/ /\ lHandler[d].at \in {"command", "link"}
          /\ lHandler[d].change = lTasks[t].change /\ lHandler[d].event = lTasks[t].event
LinkAlone(d) ==
    /\ lHandler[d].at = "link" =>
         lInbox.candidates[lHandler[d].change].status \in {"pending", "ignored"}
    /\ lAgain = {} \/ lHandler[d].at = "none"
    /\ \A t \in DOMAIN lTasks : LinkedYet(t) \/ LinkedSoon(d, t)

Others(d) == \A e \in L!Daemons \ {d} : lHandler[e] = L!Idle /\ lWorker[e] = L!NoWorker
OneOfEach ==
    /\ \A e, f \in lAgain : e = f
    /\ \A t, u \in DOMAIN lTasks : lTasks[t].change = lTasks[u].change => t = u
    /\ \A c \in L!Changes : lInbox.candidates[c].judged = "assessed"
                              => lInbox.candidates[c].seen = lInbox.candidates[c].diff
Alone(d) == Others(d) /\ ScanAlone(d) /\ JudgesAlone(d) /\ LinkAlone(d) /\ OneOfEach

LineageInv ==
    /\ LTypes /\ TasksInv /\ InboxIsComplete
    /\ \A d \in L!Daemons : CopyIsComplete(d) /\ HandlerInv(d) /\ WorkerInv(d)
    /\ ~lOverlapped => \A d \in L!Daemons : d = lEpoch => Alone(d)

-----------------------------------------------------------------------------

\* Handlers and workers that are idle, or just set out.
LEMMA LineageIdle ==
    /\ L!Idle \in LHandler /\ L!Idle.at = "none" /\ L!Idle.event = 0 /\ L!Idle.latest = 0
    /\ L!Idle.copy \in Inbox0 /\ L!Idle.copy.cursor = 0
    /\ L!NoWorker \in LWorker /\ L!NoWorker.at = "none" /\ L!NoWorker.todo = {}
    /\ L!NoJob \in LQueue /\ L!NoJob.status = "none"
<1>1. L!Unseen \in Known0
  BY ChangesAssumption DEF L!Unseen, Known0
<1>2. [cursor |-> 0, candidates |-> [c \in L!Changes |-> L!Unseen]] \in Inbox0
  BY <1>1, ChangesAssumption DEF Inbox0
<1> QED
  BY <1>2, ChangesAssumption DEF L!Idle, L!NoWorker, L!NoJob, LHandler, LWorker, LQueue

\* A task adopts one of the changes, by one of the commands.
LEMMA LineageTask ==
    ASSUME lTasks \in Seq(LTask), NEW t \in DOMAIN lTasks
    PROVE  lTasks[t].change \in L!Changes /\ lTasks[t].event \in 1..MaxEvents
<1>1. lTasks[t] \in LTask
  OBVIOUS
<1> QED
  BY <1>1 DEF LTask

LEMMA LineageSetsOut ==
    ASSUME NEW x \in {"none", "command", "scan", "merge", "save", "enqueue", "link", "turn"}
    PROVE  LET h == [L!Idle EXCEPT !.at = x] IN
           h \in LHandler /\ h.at = x /\ h.event = 0 /\ h.latest = 0 /\ h.copy.cursor = 0
  BY LineageIdle DEF LHandler

LEMMA LineageDone ==
    ASSUME NEW d \in L!Daemons
    PROVE  /\ L!Done(d) \in LHandler /\ L!Done(d).at \in {"none", "turn"}
           /\ L!Done(d).event = 0 /\ L!Done(d).latest = 0 /\ L!Done(d).copy.cursor = 0
           /\ d = lEpoch => L!Done(d) = L!Idle
  BY LineageIdle, LineageSetsOut DEF L!Done

\* Where no replaced daemon went on, only the current one is at work.
LEMMA LineageAlone ==
    ASSUME LineageInv, ~lOverlapped, NEW d \in L!Daemons,
           lHandler[d].at # "none" \/ lWorker[d].at # "none"
    PROVE  d = lEpoch /\ Alone(d)
<1>1. lEpoch \in L!Daemons /\ Alone(lEpoch)
  BY DEF LineageInv, LTypes
<1> QED
  BY <1>1, LineageIdle DEF Alone, Others

\* What a daemon knows stays true while nothing of it changes.
Knows(d) == CopyIsComplete(d) /\ HandlerInv(d) /\ WorkerInv(d)

LEMMA KnowsStill ==
    ASSUME NEW d \in L!Daemons, Knows(d), lHandler'[d] = lHandler[d], lWorker'[d] = lWorker[d],
           UNCHANGED lParent,
           \A v \in 0..MaxEvents : L!Assigned(v) => L!Assigned(v)',
           lHandler[d] \in LHandler
    PROVE  Knows(d)'
  BY DEF Knows, CopyIsComplete, HandlerInv, WorkerInv, L!CommitsOf, LHandler

LEMMA KnowsIdle ==
    ASSUME NEW d \in L!Daemons, lHandler'[d].at \in {"none", "turn", "scan", "enqueue"},
           lHandler'[d].event = 0, lHandler'[d].latest = 0, lHandler'[d].copy.cursor = 0,
           WorkerInv(d)', lParent'.head \in Nat
    PROVE  Knows(d)'
<1>1. \A c \in 1..lHandler'[d].copy.cursor : FALSE
  OBVIOUS
<1>2. lHandler'[d].latest <= lParent'.head
  OBVIOUS
<1> QED
  BY <1>1, <1>2 DEF Knows, CopyIsComplete, HandlerInv

LEMMA LandKeeps ==
    ASSUME LineageInv, NEW pullRequest \in BOOLEAN, L!Land(pullRequest)
    PROVE  LineageInv'
<1>1. PICK head \in 1..MaxChanges :
         /\ lParent.head <= head
         /\ lParent'.head = head
         /\ lParent'.merges \in {lParent.merges, lParent.merges \cup {head}}
         /\ lParent' \in [head : 0..MaxChanges, merges : SUBSET L!Changes]
  <2> DEFINE head == lParent.head + (IF pullRequest THEN 2 ELSE 1)
             merges == IF pullRequest THEN lParent.merges \cup {head} ELSE lParent.merges
  <2>1. lParent.head \in 0..MaxChanges /\ lParent.merges \subseteq L!Changes
    BY DEF LineageInv, LTypes
  <2>2. head <= MaxChanges
    <3>1. head <= MaxOverlap \/ head <= MaxChanges
      BY DEF L!Land
    <3> QED
      BY <2>1, <3>1, ChangesAssumption
  <2>3. head \in 1..MaxChanges /\ lParent.head <= head
    BY <2>1, <2>2, ChangesAssumption
  <2>4. lParent' = [head |-> head, merges |-> merges]
    BY DEF L!Land
  <2>5. merges \in SUBSET L!Changes /\ merges \in {lParent.merges, lParent.merges \cup {head}}
    BY <2>1, <2>3 DEF L!Changes
  <2>6. head \in 0..MaxChanges
    BY <2>3, ChangesAssumption
  <2> HIDE DEF head, merges
  <2> QED
    BY <2>3, <2>4, <2>5, <2>6
<1>2. UNCHANGED <<lInbox, lQueue, lTasks, lEpoch, lHandler, lWorker, lAgain, lEvents, lOverlapped>>
  BY DEF L!Land
<1>3. LTypes'
  BY <1>1, <1>2 DEF LineageInv, LTypes
<1>4. \A m \in L!Changes : L!CommitsOf(m) \subseteq L!CommitsOf(m)'
  BY <1>1 DEF L!CommitsOf
<1>5. InboxIsComplete'
  BY <1>2, <1>4 DEF LineageInv, InboxIsComplete
<1>6. ASSUME NEW d \in L!Daemons PROVE CopyIsComplete(d)'
  BY <1>2, <1>4 DEF LineageInv, CopyIsComplete
<1>7. ASSUME NEW d \in L!Daemons PROVE HandlerInv(d)' /\ WorkerInv(d)'
  <2>1. lHandler[d].latest <= lParent'.head
    <3>1. lHandler[d].latest \in 0..MaxChanges /\ lParent.head \in 0..MaxChanges
      BY <1>7 DEF LineageInv, LTypes, LHandler
    <3>2. lHandler[d].latest <= lParent.head
      BY <1>7 DEF LineageInv, HandlerInv
    <3> QED
      BY <1>1, <3>1, <3>2
  <2> QED
    BY <1>2, <1>7, <2>1 DEF LineageInv, HandlerInv, WorkerInv, L!Assigned
<1>8. ASSUME ~lOverlapped', NEW d \in L!Daemons, d = lEpoch' PROVE Alone(d)'
  BY <1>2, <1>8 DEF LineageInv, Alone, Others, ScanAlone, JudgesAlone, Ahead, LinkAlone,
     LinkedYet, LinkedSoon, OneOfEach, L!Idle, L!NoWorker
<1> QED
  BY <1>2, <1>3, <1>5, <1>6, <1>7, <1>8 DEF LineageInv, TasksInv

LEMMA TaskLandsKeeps ==
    ASSUME LineageInv, NEW t \in DOMAIN lTasks, L!TaskLands(t)
    PROVE  LineageInv'
<1>1. /\ lTasks' = [lTasks EXCEPT ![t].status = "landed"]
      /\ UNCHANGED <<lParent, lInbox, lQueue, lEpoch, lHandler, lWorker, lAgain, lEvents, lOverlapped>>
  BY DEF L!TaskLands
<1>2. lTasks \in Seq(LTask)
  BY DEF LineageInv, LTypes
<1>3. /\ DOMAIN lTasks' = DOMAIN lTasks /\ lTasks' \in Seq(LTask)
      /\ \A u \in DOMAIN lTasks : /\ lTasks'[u].change = lTasks[u].change
                                  /\ lTasks'[u].event = lTasks[u].event
  <2> DEFINE new == [lTasks[t] EXCEPT !.status = "landed"]
  <2>1. lTasks[t] \in LTask
    BY <1>2
  <2>2. new \in LTask /\ new.change = lTasks[t].change /\ new.event = lTasks[t].event
    BY <2>1 DEF LTask
  <2>3. lTasks' = [lTasks EXCEPT ![t] = new]
    BY <1>1
  <2> HIDE DEF new
  <2>4. DOMAIN lTasks' = DOMAIN lTasks /\ lTasks' \in Seq(LTask)
    BY <1>2, <2>2, <2>3
  <2> QED
    BY <1>2, <2>2, <2>3, <2>4
<1>4. LTypes' /\ TasksInv' /\ InboxIsComplete'
  BY <1>1, <1>3 DEF LineageInv, LTypes, TasksInv, InboxIsComplete, L!CommitsOf
<1>5. ASSUME NEW d \in L!Daemons PROVE CopyIsComplete(d)' /\ HandlerInv(d)' /\ WorkerInv(d)'
  BY <1>1, <1>3, <1>5 DEF LineageInv, CopyIsComplete, HandlerInv, WorkerInv, L!Assigned, L!CommitsOf
<1>6. ASSUME ~lOverlapped', NEW d \in L!Daemons, d = lEpoch' PROVE Alone(d)'
  <2>1. ~lOverlapped /\ d = lEpoch
    BY <1>1, <1>6
  <2>2. Others(d)' /\ ScanAlone(d)' /\ JudgesAlone(d)'
    BY <1>1, <2>1 DEF LineageInv, Alone, Others, ScanAlone, JudgesAlone, Ahead, L!Idle, L!NoWorker
  <2>3. LinkAlone(d)' /\ OneOfEach'
    BY <1>1, <1>3, <2>1 DEF LineageInv, Alone, LinkAlone, LinkedYet, LinkedSoon, OneOfEach
  <2> QED
    BY <2>2, <2>3 DEF Alone
<1> QED
  BY <1>4, <1>5, <1>6 DEF LineageInv

LEMMA NewDaemonKeeps ==
    ASSUME LineageInv, NEW survives \in BOOLEAN, L!NewDaemon(survives)
    PROVE  LineageInv'
<1> DEFINE old == lEpoch
           pair == <<lHandler[old].change, lHandler[old].event>>
<1>1. /\ old \in L!Daemons /\ old + 1 \in L!Daemons /\ lEpoch' = old + 1
      /\ lOverlapped' = (lOverlapped \/ survives)
      /\ lAgain' = lAgain \cup (IF lHandler[old].event = 0 THEN {} ELSE {pair})
      /\ UNCHANGED <<lParent, lInbox, lQueue, lTasks, lEvents>>
  <2>1. old \in 1..MaxDaemons /\ old < MaxDaemons
    BY DEF LineageInv, LTypes, L!Daemons, L!NewDaemon
  <2>2. old + 1 \in 1..MaxDaemons
    BY <2>1, ChangesAssumption
  <2> QED
    BY <2>1, <2>2 DEF L!NewDaemon, L!Daemons
<1>2. /\ lHandler \in [L!Daemons -> LHandler] /\ lWorker \in [L!Daemons -> LWorker]
      /\ lOverlapped \in BOOLEAN /\ lAgain \subseteq L!Changes \X (1..MaxEvents)
      /\ TasksInv /\ InboxIsComplete /\ \A d \in L!Daemons : Knows(d)
  BY DEF LineageInv, LTypes, Knows
<1>3. /\ lHandler' \in [L!Daemons -> LHandler] /\ lWorker' \in [L!Daemons -> LWorker]
      /\ \A d \in L!Daemons \ {old} : lHandler'[d] = lHandler[d] /\ lWorker'[d] = lWorker[d]
      /\ survives => /\ lWorker'[old] = lWorker[old]
                     /\ lHandler'[old] = [lHandler[old] EXCEPT !.at = IF @ = "none" THEN "turn" ELSE @]
      /\ ~survives => lHandler'[old] = L!Idle /\ lWorker'[old] = L!NoWorker
  <2>1. CASE survives
    <3> DEFINE next == [lHandler[old] EXCEPT !.at = IF @ = "none" THEN "turn" ELSE @]
    <3>1. next \in LHandler
      BY <1>1, <1>2 DEF LHandler
    <3>2. lHandler' = [lHandler EXCEPT ![old] = next] /\ lWorker' = lWorker
      BY <2>1 DEF L!NewDaemon
    <3> HIDE DEF next
    <3>3. /\ lHandler' \in [L!Daemons -> LHandler] /\ lHandler'[old] = next
          /\ \A d \in L!Daemons \ {old} : lHandler'[d] = lHandler[d]
      BY <1>1, <1>2, <3>1, <3>2
    <3> QED
      BY <1>1, <1>2, <2>1, <3>2, <3>3 DEF next
  <2>2. CASE ~survives
    <3>1. lHandler' = [lHandler EXCEPT ![old] = L!Idle] /\ lWorker' = [lWorker EXCEPT ![old] = L!NoWorker]
      BY <2>2 DEF L!NewDaemon
    <3> QED
      BY <1>1, <1>2, <2>2, <3>1, LineageIdle
  <2> QED
    BY <2>1, <2>2
<1>4. lHandler[old].event # 0 => pair \in L!Changes \X (1..MaxEvents)
  <2>1. lHandler[old].event # 0 => lHandler[old].change \in L!Changes
    BY <1>1, <1>2 DEF Knows, HandlerInv
  <2>2. lHandler[old].event \in 0..MaxEvents
    BY <1>1, <1>2 DEF LHandler
  <2> QED
    BY <2>1, <2>2
<1> HIDE DEF pair
<1>5. LTypes'
  BY <1>1, <1>2, <1>3, <1>4 DEF LineageInv, LTypes
<1>6. TasksInv' /\ InboxIsComplete'
  BY <1>1, <1>2 DEF TasksInv, InboxIsComplete, L!CommitsOf
<1>7. ASSUME NEW d \in L!Daemons PROVE Knows(d)'
  <2>1. CASE d # old
    BY <1>1, <1>2, <1>3, <1>7, <2>1, KnowsStill DEF L!Assigned
  <2>2. CASE d = old /\ survives
    <3>1. /\ lHandler'[d].copy = lHandler[d].copy /\ lHandler'[d].event = lHandler[d].event
          /\ lHandler'[d].change = lHandler[d].change /\ lHandler'[d].latest = lHandler[d].latest
          /\ lHandler'[d].at = IF lHandler[d].at = "none" THEN "turn" ELSE lHandler[d].at
      BY <1>1, <1>2, <1>3, <2>2 DEF LHandler
    <3> QED
      BY <1>1, <1>2, <1>3, <1>7, <2>2, <3>1
         DEF Knows, CopyIsComplete, HandlerInv, WorkerInv, L!CommitsOf, L!Assigned
  <2>3. CASE d = old /\ ~survives
    <3>1. lParent'.head \in Nat
      BY <1>5, ChangesAssumption DEF LTypes
    <3>2. WorkerInv(d)'
      BY <1>3, <2>3, LineageIdle DEF WorkerInv
    <3> QED
      BY <1>3, <1>7, <2>3, <3>1, <3>2, LineageIdle, KnowsIdle
  <2> QED
    BY <2>1, <2>2, <2>3
<1>8. ASSUME ~lOverlapped', NEW d \in L!Daemons, d = lEpoch' PROVE Alone(d)'
  <2>1. ~lOverlapped /\ ~survives /\ Alone(old) /\ d = old + 1 /\ d # old
    <3>1. old + 1 # old
      <4>1. old \in Nat
        BY <1>1, ChangesAssumption DEF L!Daemons
      <4> QED
        BY <4>1
    <3>2. ~lOverlapped /\ ~survives
      BY <1>1, <1>8
    <3>3. Alone(old)
      BY <1>1, <3>2 DEF LineageInv
    <3> QED
      BY <1>1, <1>8, <3>1, <3>2, <3>3
  <2>2. Others(d)' /\ lHandler'[d] = L!Idle /\ lWorker'[d] = L!NoWorker
    BY <1>1, <1>3, <2>1 DEF Alone, Others, L!Idle, L!NoWorker
  <2>3. ScanAlone(d)' /\ JudgesAlone(d)'
    BY <2>2, LineageIdle DEF ScanAlone, JudgesAlone
  <2>4. \A e, f \in lAgain' : e = f
    BY <1>1, <1>2, <2>1 DEF Alone, LinkAlone, OneOfEach, Knows, HandlerInv
  <2>5. ASSUME NEW t \in DOMAIN lTasks PROVE LinkedYet(t)' \/ LinkedSoon(d, t)'
    <3>1. CASE LinkedYet(t)
      BY <1>1, <3>1 DEF LinkedYet
    <3>2. CASE LinkedSoon(old, t)
      <4>1. <<lTasks[t].change, lTasks[t].event>> \in lAgain'
        BY <1>1, <1>2, <3>2 DEF LinkedSoon, Knows, HandlerInv, pair
      <4> QED
        BY <1>1, <3>2, <4>1 DEF LinkedSoon
    <3> QED
      BY <2>1, <2>5, <3>1, <3>2 DEF Alone, LinkAlone
  <2>6. LinkAlone(d)'
    BY <1>1, <2>2, <2>5, LineageIdle DEF LinkAlone
  <2>7. OneOfEach'
    BY <1>1, <2>1, <2>4 DEF Alone, OneOfEach
  <2> QED
    BY <2>2, <2>3, <2>6, <2>7 DEF Alone
<1> QED
  BY <1>5, <1>6, <1>7, <1>8 DEF LineageInv, Knows

LEMMA ReplacedEndsKeeps ==
    ASSUME LineageInv, NEW d \in L!Daemons, L!ReplacedEnds(d)
    PROVE  LineageInv'
<1>1. /\ d < lEpoch /\ L!Busy(d)
      /\ lHandler' = [lHandler EXCEPT ![d] = L!Idle] /\ lWorker' = [lWorker EXCEPT ![d] = L!NoWorker]
      /\ UNCHANGED <<lParent, lInbox, lQueue, lTasks, lEpoch, lAgain, lEvents, lOverlapped>>
  BY DEF L!ReplacedEnds, L!Handle, L!Work
<1>2. /\ lHandler \in [L!Daemons -> LHandler] /\ lWorker \in [L!Daemons -> LWorker]
      /\ lEpoch \in L!Daemons /\ \A e \in L!Daemons : Knows(e)
  BY DEF LineageInv, LTypes, Knows
<1>3. LTypes' /\ TasksInv' /\ InboxIsComplete'
  BY <1>1, <1>2, LineageIdle
     DEF LineageInv, LTypes, TasksInv, InboxIsComplete, L!CommitsOf
<1>4. ASSUME NEW e \in L!Daemons PROVE Knows(e)'
  <2>1. CASE e # d
    BY <1>1, <1>2, <1>4, <2>1, KnowsStill DEF L!Assigned
  <2>2. CASE e = d
    <3>1. lParent'.head \in Nat
      BY <1>3, ChangesAssumption DEF LTypes
    <3>2. WorkerInv(e)'
      BY <1>1, <1>2, <2>2, LineageIdle DEF WorkerInv
    <3> QED
      BY <1>1, <1>2, <2>2, <3>1, <3>2, LineageIdle, KnowsIdle
  <2> QED
    BY <2>1, <2>2
<1>5. lOverlapped'
  <2>1. ~lOverlapped => d = lEpoch
    BY <1>1, LineageAlone DEF L!Busy
  <2>2. d # lEpoch
    BY <1>1, <1>2, ChangesAssumption DEF L!Daemons
  <2> QED
    BY <1>1, <2>1, <2>2
<1> QED
  BY <1>3, <1>4, <1>5 DEF LineageInv, Knows

\* What the commands and the worker need to know of the inbox: nothing but the status of a
\* candidate changes.
SameJudgement(old, new) ==
    new.diff = old.diff /\ new.judged = old.judged /\ new.seen = old.seen

LEMMA ReconcileIs ==
    ASSUME LineageInv, NEW readable, L!Reconcile(readable)
    PROVE  /\ lInbox' \in Inbox0 /\ lInbox'.cursor = lInbox.cursor
           /\ \A c \in L!Changes :
                /\ SameJudgement(lInbox.candidates[c], lInbox'.candidates[c])
                /\ \/ lInbox'.candidates[c].status = lInbox.candidates[c].status
                   \/ /\ lInbox.candidates[c].status = "linked"
                      /\ lInbox'.candidates[c].status = "adopted"
<1> DEFINE new(c) == IF lInbox.candidates[c].status = "linked" /\ c \in readable /\ L!Landed(c)
                     THEN [lInbox.candidates[c] EXCEPT !.status = "adopted"] ELSE lInbox.candidates[c]
           all == [c \in L!Changes |-> new(c)]
<1>1. lInbox \in Inbox0
  BY DEF LineageInv, LTypes
<1>2. ASSUME NEW c \in L!Changes
      PROVE  /\ new(c) \in Known0 /\ SameJudgement(lInbox.candidates[c], new(c))
             /\ \/ new(c).status = lInbox.candidates[c].status
                \/ lInbox.candidates[c].status = "linked" /\ new(c).status = "adopted"
  <2>1. lInbox.candidates[c] \in Known0
    BY <1>1, <1>2 DEF Inbox0
  <2> QED
    BY <2>1 DEF Known0, SameJudgement
<1>3. lInbox' = [lInbox EXCEPT !.candidates = all]
  BY DEF L!Reconcile
<1>4. all \in [L!Changes -> Known0] /\ \A c \in L!Changes : all[c] = new(c)
  BY <1>2
<1> HIDE DEF all, new
<1>5. lInbox' \in Inbox0 /\ lInbox'.cursor = lInbox.cursor /\ lInbox'.candidates = all
  BY <1>1, <1>3, <1>4 DEF Inbox0
<1> QED
  BY <1>2, <1>4, <1>5

LEMMA InheritKeeps ==
    ASSUME LineageInv, NEW d \in L!Daemons, L!InheritCommand(d)
    PROVE  LineageInv'
<1>1. /\ d = lEpoch /\ lHandler[d].at = "none"
      /\ UNCHANGED <<lParent, lQueue, lTasks, lEpoch, lWorker, lOverlapped>>
  BY DEF L!InheritCommand
<1>2. /\ lInbox' \in Inbox0 /\ lInbox'.cursor = lInbox.cursor
      /\ \A c \in L!Changes :
           /\ SameJudgement(lInbox.candidates[c], lInbox'.candidates[c])
           /\ \/ lInbox'.candidates[c].status = lInbox.candidates[c].status
              \/ /\ lInbox.candidates[c].status = "linked"
                 /\ lInbox'.candidates[c].status = "adopted"
  BY ReconcileIs DEF L!InheritCommand
<1>3. /\ lHandler \in [L!Daemons -> LHandler] /\ lWorker \in [L!Daemons -> LWorker]
      /\ lAgain \subseteq L!Changes \X (1..MaxEvents) /\ lTasks \in Seq(LTask)
      /\ lEvents \in 0..MaxEvents /\ \A e \in L!Daemons : Knows(e)
  BY DEF LineageInv, LTypes, Knows
<1>4. PICK next \in LHandler :
        /\ lHandler' = [lHandler EXCEPT ![d] = next]
        /\ next.at \in {"scan", "command"} /\ next.latest = 0 /\ next.copy.cursor = 0
        /\ next.event # 0 => next.change \in L!Changes
        /\ next.at = "command" => next.event # 0
        /\ lEvents' \in 0..MaxEvents
        /\ \/ lAgain = {} /\ lAgain' = {}
           \/ /\ next.at = "command"
              /\ <<next.change, next.event>> \in lAgain
              /\ lAgain' = lAgain \ {<<next.change, next.event>>}
  <2>1. CASE lAgain = {} /\ L!Handle(d, [L!Idle EXCEPT !.at = "scan"]) /\ UNCHANGED <<lEvents, lAgain>>
    <3> DEFINE next == [L!Idle EXCEPT !.at = "scan"]
    <3>1. next \in LHandler /\ next.at = "scan" /\ next.event = 0 /\ next.latest = 0 /\ next.copy.cursor = 0
      BY LineageSetsOut
    <3>2. lHandler' = [lHandler EXCEPT ![d] = next]
      BY <2>1 DEF L!Handle
    <3> HIDE DEF next
    <3> QED
      BY <1>3, <2>1, <3>1, <3>2
  <2>2. ASSUME NEW c \in L!Changes, lAgain = {}, lEvents < MaxEvents,
               L!Handle(d, [L!Idle EXCEPT !.at = "command", !.change = c, !.event = lEvents + 1]),
               lEvents' = lEvents + 1, UNCHANGED lAgain
        PROVE  \E next \in LHandler :
                 /\ lHandler' = [lHandler EXCEPT ![d] = next]
                 /\ next.at = "command" /\ next.latest = 0 /\ next.copy.cursor = 0
                 /\ next.change \in L!Changes /\ next.event # 0 /\ lEvents' \in 0..MaxEvents
    <3> DEFINE event == lEvents + 1
    <3>1. event \in 1..MaxEvents /\ event \in 0..MaxEvents /\ event # 0 /\ lEvents' \in 0..MaxEvents
      BY <1>3, <2>2, ChangesAssumption
    <3> HIDE DEF event
    <3> DEFINE next == [L!Idle EXCEPT !.at = "command", !.change = c, !.event = event]
    <3>2. c \in 0..MaxChanges
      BY ChangesAssumption DEF L!Changes
    <3>3. /\ next \in LHandler /\ next.at = "command" /\ next.latest = 0 /\ next.copy.cursor = 0
          /\ next.change = c /\ next.event = event
      BY <3>1, <3>2, LineageIdle DEF LHandler
    <3>4. lHandler' = [lHandler EXCEPT ![d] = next]
      BY <2>2 DEF L!Handle, event
    <3> HIDE DEF next
    <3> QED
      BY <3>1, <3>3, <3>4
  <2>3. ASSUME NEW e \in lAgain,
               L!Handle(d, [L!Idle EXCEPT !.at = "command", !.change = e[1], !.event = e[2]]),
               lAgain' = lAgain \ {e}, UNCHANGED lEvents
        PROVE  \E next \in LHandler :
                 /\ lHandler' = [lHandler EXCEPT ![d] = next]
                 /\ next.at = "command" /\ next.latest = 0 /\ next.copy.cursor = 0
                 /\ next.change \in L!Changes /\ next.event # 0
                 /\ <<next.change, next.event>> = e
    <3> DEFINE next == [L!Idle EXCEPT !.at = "command", !.change = e[1], !.event = e[2]]
    <3>1. e = <<e[1], e[2]>> /\ e[1] \in L!Changes /\ e[2] \in 1..MaxEvents
      BY <1>3
    <3>2. e[1] \in 0..MaxChanges /\ e[2] \in 0..MaxEvents /\ e[2] # 0
      BY <3>1, ChangesAssumption DEF L!Changes
    <3>3. /\ next \in LHandler /\ next.at = "command" /\ next.latest = 0 /\ next.copy.cursor = 0
          /\ next.change = e[1] /\ next.event = e[2]
      BY <3>2, LineageIdle DEF LHandler
    <3>4. lHandler' = [lHandler EXCEPT ![d] = next]
      BY <2>3 DEF L!Handle
    <3> HIDE DEF next
    <3> QED
      BY <3>1, <3>2, <3>3, <3>4
  <2> QED
    BY <1>3, <2>1, <2>2, <2>3, ZenonT(60) DEF L!InheritCommand
<1>5. /\ lHandler' \in [L!Daemons -> LHandler] /\ lHandler'[d] = next
      /\ \A e \in L!Daemons \ {d} : lHandler'[e] = lHandler[e]
  BY <1>3, <1>4
<1>6. LTypes'
  BY <1>1, <1>2, <1>3, <1>4, <1>5 DEF LineageInv, LTypes
<1>7. TasksInv' /\ InboxIsComplete'
  BY <1>1, <1>2 DEF LineageInv, TasksInv, InboxIsComplete, L!CommitsOf
<1>8. ASSUME NEW e \in L!Daemons PROVE Knows(e)'
  <2>1. CASE e # d
    BY <1>1, <1>3, <1>5, <1>8, <2>1, KnowsStill DEF L!Assigned
  <2>2. CASE e = d
    <3>1. \A c \in 1..lHandler'[d].copy.cursor : FALSE
      BY <1>4, <1>5
    <3>2. lHandler'[d].latest <= lParent'.head
      BY <1>4, <1>5, <1>6, ChangesAssumption DEF LTypes
    <3> QED
      BY <1>1, <1>3, <1>4, <1>5, <2>2, <3>1, <3>2 DEF Knows, CopyIsComplete, HandlerInv, WorkerInv
  <2> QED
    BY <2>1, <2>2
<1>9. ASSUME ~lOverlapped' PROVE Alone(d)'
  <2>1. ~lOverlapped /\ Alone(d)
    BY <1>1, <1>9 DEF LineageInv
  <2>2. Others(d)'
    BY <1>1, <1>5, <2>1 DEF Alone, Others, L!Idle, L!NoWorker
  <2>3. ScanAlone(d)'
    BY <1>1, <1>4, <1>5, <2>1 DEF Alone, ScanAlone
  <2>4. JudgesAlone(d)'
    BY <1>1, <1>2, <2>1 DEF Alone, JudgesAlone, Ahead, SameJudgement
  <2>5. lAgain' = {} /\ \A e, f \in lAgain' : e = f
    BY <1>4, <2>1 DEF Alone, OneOfEach
  <2>6. ASSUME NEW t \in DOMAIN lTasks PROVE LinkedYet(t)' \/ LinkedSoon(d, t)'
    <3>0. lTasks[t].change \in L!Changes
      BY <1>3, <2>6, LineageTask
    <3>1. CASE LinkedYet(t)
      BY <1>1, <1>2, <3>0, <3>1 DEF LinkedYet
    <3>2. CASE LinkedSoon(d, t)
      <4>1. <<lTasks[t].change, lTasks[t].event>> \in lAgain
        BY <1>1, <3>2 DEF LinkedSoon
      <4>2. <<next.change, next.event>> = <<lTasks[t].change, lTasks[t].event>> /\ next.at = "command"
        BY <1>4, <2>1, <4>1 DEF Alone, OneOfEach
      <4> QED
        BY <1>1, <1>2, <1>5, <3>0, <3>2, <4>2 DEF LinkedSoon, SameJudgement
    <3> QED
      BY <2>1, <2>6, <3>1, <3>2 DEF Alone, LinkAlone
  <2>7. LinkAlone(d)'
    BY <1>1, <1>4, <1>5, <2>5, <2>6 DEF LinkAlone
  <2>8. OneOfEach'
    BY <1>1, <1>2, <2>1, <2>5 DEF Alone, OneOfEach, SameJudgement
  <2> QED
    BY <2>2, <2>3, <2>4, <2>7, <2>8 DEF Alone
<1> QED
  BY <1>1, <1>6, <1>7, <1>8, <1>9 DEF LineageInv, Knows

LEMMA IgnoreKeeps ==
    ASSUME LineageInv, NEW d \in L!Daemons, NEW c \in L!Changes, L!IgnoreCandidate(d, c)
    PROVE  LineageInv'
<1>1. /\ d = lEpoch /\ lHandler[d].at = "none" /\ lInbox.candidates[c].status = "pending"
      /\ lInbox' = [lInbox EXCEPT !.candidates[c].status = "ignored"]
      /\ UNCHANGED <<lParent, lQueue, lTasks, lEpoch, lHandler, lWorker, lAgain, lEvents, lOverlapped>>
  BY DEF L!IgnoreCandidate, L!Pending, L!Set
<1>2. lInbox \in Inbox0 /\ lTasks \in Seq(LTask)
  BY DEF LineageInv, LTypes
<1>3. /\ lInbox' \in Inbox0 /\ lInbox'.cursor = lInbox.cursor
      /\ \A m \in L!Changes \ {c} : lInbox'.candidates[m] = lInbox.candidates[m]
      /\ lInbox'.candidates[c].status = "ignored"
      /\ SameJudgement(lInbox.candidates[c], lInbox'.candidates[c])
  <2> DEFINE new == [lInbox.candidates[c] EXCEPT !.status = "ignored"]
  <2>1. new \in Known0 /\ new.status = "ignored" /\ SameJudgement(lInbox.candidates[c], new)
    <3>1. lInbox.candidates[c] \in Known0
      BY <1>2 DEF Inbox0
    <3> QED
      BY <3>1 DEF Known0, SameJudgement
  <2>2. lInbox' = [lInbox EXCEPT !.candidates = [lInbox.candidates EXCEPT ![c] = new]]
    BY <1>1
  <2> HIDE DEF new
  <2> QED
    BY <1>2, <2>1, <2>2 DEF Inbox0
<1>4. LTypes' /\ TasksInv'
  BY <1>1, <1>3 DEF LineageInv, LTypes, TasksInv
<1>5. InboxIsComplete'
  BY <1>1, <1>3 DEF LineageInv, InboxIsComplete, L!CommitsOf
<1>6. ASSUME NEW e \in L!Daemons PROVE Knows(e)'
  BY <1>1, <1>6 DEF LineageInv, Knows, CopyIsComplete, HandlerInv, WorkerInv, L!CommitsOf, L!Assigned
<1>7. ASSUME ~lOverlapped' PROVE Alone(d)'
  <2>1. Alone(d)
    BY <1>1, <1>7 DEF LineageInv
  <2>2. Others(d)' /\ ScanAlone(d)'
    BY <1>1, <2>1 DEF Alone, Others, ScanAlone, L!Idle, L!NoWorker
  <2>3. JudgesAlone(d)'
    BY <1>1, <1>3, <2>1 DEF Alone, JudgesAlone, Ahead, SameJudgement
  <2>4. ASSUME NEW t \in DOMAIN lTasks PROVE LinkedYet(t)' \/ LinkedSoon(d, t)'
    <3>0. lTasks[t].change \in L!Changes
      BY <1>2, <2>4, LineageTask
    <3> QED
      BY <1>1, <1>3, <2>1, <2>4, <3>0 DEF Alone, LinkAlone, LinkedYet, LinkedSoon, SameJudgement
  <2>5. LinkAlone(d)' /\ OneOfEach'
    BY <1>1, <1>3, <2>1, <2>4 DEF Alone, LinkAlone, OneOfEach, SameJudgement
  <2> QED
    BY <2>2, <2>3, <2>5 DEF Alone
<1> QED
  BY <1>1, <1>4, <1>5, <1>6, <1>7 DEF LineageInv, Knows

LEMMA ScanStartsKeeps ==
    ASSUME LineageInv, NEW d \in L!Daemons, L!ScanStarts(d)
    PROVE  LineageInv'
<1> DEFINE merging == [lHandler[d] EXCEPT !.at = "merge", !.latest = lParent.head, !.copy = lInbox]
<1>1. /\ lHandler[d].at = "scan"
      /\ \/ lQueue.status # "none" /\ lHandler' = [lHandler EXCEPT ![d] = L!Done(d)]
         \/ lQueue.status = "none" /\ lHandler' = [lHandler EXCEPT ![d] = merging]
      /\ UNCHANGED <<lParent, lInbox, lQueue, lTasks, lEpoch, lWorker, lAgain, lEvents, lOverlapped>>
  BY DEF L!ScanStarts, L!Handle
<1>2. /\ lHandler \in [L!Daemons -> LHandler] /\ lInbox \in Inbox0 /\ lParent.head \in 0..MaxChanges
      /\ InboxIsComplete /\ \A e \in L!Daemons : Knows(e)
  BY DEF LineageInv, LTypes, Knows
<1>3. /\ merging \in LHandler /\ merging.at = "merge" /\ merging.latest = lParent.head
      /\ merging.copy = lInbox /\ merging.event = lHandler[d].event
      /\ merging.change = lHandler[d].change
  BY <1>2 DEF LHandler
<1> HIDE DEF merging
<1>4. PICK next \in {L!Done(d), merging} :
        /\ lHandler' = [lHandler EXCEPT ![d] = next] /\ next \in LHandler
        /\ next = merging => lQueue.status = "none"
        /\ lHandler' \in [L!Daemons -> LHandler] /\ lHandler'[d] = next
        /\ \A e \in L!Daemons \ {d} : lHandler'[e] = lHandler[e]
  BY <1>1, <1>2, <1>3, LineageDone
<1>5. LTypes' /\ TasksInv' /\ InboxIsComplete'
  BY <1>1, <1>4 DEF LineageInv, LTypes, TasksInv, InboxIsComplete, L!CommitsOf
<1>6. ASSUME NEW e \in L!Daemons PROVE Knows(e)'
  <2>1. CASE e # d
    BY <1>1, <1>2, <1>4, <1>6, <2>1, KnowsStill DEF L!Assigned
  <2>2. CASE e = d /\ next = L!Done(d)
    <3>1. lParent'.head \in Nat /\ WorkerInv(d)'
      BY <1>1, <1>2, ChangesAssumption DEF WorkerInv, Knows
    <3> QED
      BY <1>4, <2>2, <3>1, LineageDone, KnowsIdle
  <2>3. CASE e = d /\ next = merging
    <3>1. CopyIsComplete(d)' /\ WorkerInv(d)'
      BY <1>1, <1>2, <1>3, <1>4, <2>3
         DEF CopyIsComplete, InboxIsComplete, L!CommitsOf, WorkerInv, Knows
    <3>2. HandlerInv(d)'
      BY <1>1, <1>2, <1>3, <1>4, <2>3, ChangesAssumption DEF HandlerInv, Knows
    <3> QED
      BY <2>3, <3>1, <3>2 DEF Knows
  <2> QED
    BY <1>4, <2>1, <2>2, <2>3
<1>7. ASSUME ~lOverlapped' PROVE d = lEpoch /\ Alone(d)'
  <2>1. d = lEpoch /\ Alone(d)
    BY <1>1, <1>7, LineageAlone
  <2>2. Others(d)'
    BY <1>1, <1>4, <2>1 DEF Alone, Others, L!Idle, L!NoWorker
  <2>3. JudgesAlone(d)' /\ OneOfEach'
    BY <1>1, <2>1 DEF Alone, JudgesAlone, Ahead, OneOfEach
  <2>4. next.at \in {"none", "merge"} /\ (next = merging \/ next.at = "none")
    BY <1>3, <1>4, <2>1, LineageDone, LineageIdle
  <2>5. ScanAlone(d)'
    BY <1>1, <1>3, <1>4, <2>1, <2>4 DEF Alone, ScanAlone
  <2>6. lAgain = {}
    BY <1>1, <2>1 DEF Alone, LinkAlone
  <2>7. \A t \in DOMAIN lTasks : LinkedYet(t)
    BY <1>1, <2>1, <2>6 DEF Alone, LinkAlone, LinkedSoon
  <2>8. LinkAlone(d)'
    BY <1>1, <1>4, <2>4, <2>6, <2>7 DEF LinkAlone, LinkedYet
  <2> QED
    BY <2>1, <2>2, <2>3, <2>5, <2>8 DEF Alone
<1> QED
  BY <1>1, <1>5, <1>6, <1>7 DEF LineageInv, Knows

LEMMA EnqueueKeeps ==
    ASSUME LineageInv, NEW d \in L!Daemons, L!EnqueueAssessment(d)
    PROVE  LineageInv'
<1>1. /\ lHandler[d].at = "enqueue" /\ lHandler' = [lHandler EXCEPT ![d] = L!Done(d)]
      /\ \/ UNCHANGED lQueue
         \/ lQueue' = [status |-> "pending", owner |-> 0, changes |-> L!ToAssess(lInbox.candidates)]
      /\ UNCHANGED <<lParent, lInbox, lTasks, lEpoch, lWorker, lAgain, lEvents, lOverlapped>>
  BY DEF L!EnqueueAssessment, L!Handle
<1>2. /\ lHandler \in [L!Daemons -> LHandler] /\ lParent.head \in 0..MaxChanges
      /\ \A e \in L!Daemons : Knows(e)
  BY DEF LineageInv, LTypes, Knows
<1>3. lQueue' \in LQueue /\ (lQueue'.status # lQueue.status => lQueue'.status = "pending")
  <2>1. L!ToAssess(lInbox.candidates) \subseteq L!Changes /\ lQueue \in LQueue /\ 0 \in 0..MaxDaemons
    BY ChangesAssumption DEF L!ToAssess, L!Pending, LineageInv, LTypes
  <2> QED
    BY <1>1, <2>1 DEF LQueue
<1>4. /\ lHandler' \in [L!Daemons -> LHandler] /\ lHandler'[d] = L!Done(d)
      /\ \A e \in L!Daemons \ {d} : lHandler'[e] = lHandler[e]
  BY <1>1, <1>2, LineageDone
<1>5. LTypes' /\ TasksInv' /\ InboxIsComplete'
  BY <1>1, <1>3, <1>4 DEF LineageInv, LTypes, TasksInv, InboxIsComplete, L!CommitsOf
<1>6. ASSUME NEW e \in L!Daemons PROVE Knows(e)'
  <2>1. CASE e # d
    BY <1>1, <1>2, <1>4, <1>6, <2>1, KnowsStill DEF L!Assigned
  <2>2. CASE e = d
    <3>1. lParent'.head \in Nat /\ WorkerInv(d)'
      BY <1>1, <1>2, ChangesAssumption DEF WorkerInv, Knows
    <3> QED
      BY <1>4, <2>2, <3>1, LineageDone, KnowsIdle
  <2> QED
    BY <2>1, <2>2
<1>7. ASSUME ~lOverlapped' PROVE d = lEpoch /\ Alone(d)'
  <2>1. d = lEpoch /\ Alone(d)
    BY <1>1, <1>7, LineageAlone
  <2>2. lHandler'[d] = L!Idle /\ lHandler'[d].at = "none"
    BY <1>4, <2>1, LineageDone, LineageIdle
  <2>3. Others(d)' /\ JudgesAlone(d)' /\ OneOfEach'
    BY <1>1, <1>4, <2>1 DEF Alone, Others, JudgesAlone, Ahead, OneOfEach, L!Idle, L!NoWorker
  <2>4. ScanAlone(d)'
    BY <1>1, <1>3, <2>1, <2>2 DEF Alone, ScanAlone
  <2>5. \A t \in DOMAIN lTasks : LinkedYet(t)
    BY <1>1, <2>1 DEF Alone, LinkAlone, LinkedSoon
  <2>6. LinkAlone(d)'
    BY <1>1, <2>2, <2>5 DEF LinkAlone, LinkedYet
  <2> QED
    BY <2>1, <2>3, <2>4, <2>6 DEF Alone
<1> QED
  BY <1>1, <1>5, <1>6, <1>7 DEF LineageInv, Knows

LEMMA ScanSavesKeeps ==
    ASSUME LineageInv, NEW d \in L!Daemons, L!ScanSaves(d)
    PROVE  LineageInv'
<1> DEFINE next == [L!Idle EXCEPT !.at = "enqueue"]
<1>1. /\ lHandler[d].at = "save" /\ lHandler' = [lHandler EXCEPT ![d] = next]
      /\ lInbox' = lHandler[d].copy
      /\ UNCHANGED <<lParent, lQueue, lTasks, lEpoch, lWorker, lAgain, lEvents, lOverlapped>>
  BY DEF L!ScanSaves, L!Handle
<1>2. next \in LHandler /\ next.at = "enqueue" /\ next.event = 0 /\ next.latest = 0 /\ next.copy.cursor = 0
  BY LineageSetsOut
<1> HIDE DEF next
<1>3. /\ lHandler \in [L!Daemons -> LHandler] /\ lParent.head \in 0..MaxChanges
      /\ lTasks \in Seq(LTask) /\ \A e \in L!Daemons : Knows(e)
  BY DEF LineageInv, LTypes, Knows
<1>4. /\ lHandler' \in [L!Daemons -> LHandler] /\ lHandler'[d] = next /\ lInbox' \in Inbox0
      /\ \A e \in L!Daemons \ {d} : lHandler'[e] = lHandler[e]
  BY <1>1, <1>2, <1>3 DEF LHandler
<1>5. LTypes' /\ TasksInv'
  BY <1>1, <1>4 DEF LineageInv, LTypes, TasksInv
<1>6. InboxIsComplete'
  BY <1>1, <1>3 DEF Knows, CopyIsComplete, InboxIsComplete, L!CommitsOf
<1>7. ASSUME NEW e \in L!Daemons PROVE Knows(e)'
  <2>1. CASE e # d
    BY <1>1, <1>3, <1>4, <1>7, <2>1, KnowsStill DEF L!Assigned
  <2>2. CASE e = d
    <3>1. lParent'.head \in Nat /\ WorkerInv(d)'
      BY <1>1, <1>3, ChangesAssumption DEF WorkerInv, Knows
    <3> QED
      BY <1>2, <1>4, <2>2, <3>1, KnowsIdle
  <2> QED
    BY <2>1, <2>2
<1>8. ASSUME ~lOverlapped' PROVE d = lEpoch /\ Alone(d)'
  <2>1. d = lEpoch /\ Alone(d)
    BY <1>1, <1>8, LineageAlone
  <2>2. /\ \A c \in L!Changes : Follows(lInbox.candidates[c], lInbox'.candidates[c])
        /\ lWorker[d].at = "none"
    BY <1>1, <2>1 DEF Alone, ScanAlone
  <2>3. Others(d)'
    BY <1>1, <1>4, <2>1 DEF Alone, Others, L!Idle, L!NoWorker
  <2>4. ScanAlone(d)' /\ JudgesAlone(d)'
    BY <1>1, <1>2, <1>4, <2>2 DEF ScanAlone, JudgesAlone
  <2>5. lAgain = {} /\ \A t \in DOMAIN lTasks : LinkedYet(t)
    BY <1>1, <2>1 DEF Alone, LinkAlone, LinkedSoon
  <2>6. ASSUME NEW t \in DOMAIN lTasks PROVE LinkedYet(t)'
    <3>1. lTasks[t].change \in L!Changes
      BY <1>3, <2>6, LineageTask
    <3> QED
      BY <1>1, <2>2, <2>5, <2>6, <3>1 DEF LinkedYet, Follows
  <2>7. LinkAlone(d)'
    BY <1>1, <1>2, <1>4, <2>5, <2>6 DEF LinkAlone
  <2>8. OneOfEach'
    BY <1>1, <2>1, <2>2, <2>5 DEF Alone, OneOfEach, Follows
  <2> QED
    BY <2>1, <2>3, <2>4, <2>7, <2>8 DEF Alone
<1> QED
  BY <1>1, <1>5, <1>6, <1>7, <1>8 DEF LineageInv, Knows

\* A change between two cursors is among what the scan reads, by itself or in a pull request.
LEMMA NewChangesAreRead ==
    ASSUME NEW cursor \in 0..MaxChanges, NEW c \in L!Changes, cursor < c, c <= lParent.head
    PROVE  \E m \in L!Changes : m \in L!ChangesAfter(cursor) /\ c \in L!CommitsOf(m)
<1> DEFINE new == L!CommitsAfter(cursor)
           merged == UNION {L!CommitsOf(m) : m \in new \cap lParent.merges}
<1>1. c \in new /\ new \subseteq L!Changes
  BY DEF L!CommitsAfter
<1>2. L!ChangesAfter(cursor) = (new \cap lParent.merges) \cup (new \ merged)
  BY DEF L!ChangesAfter
<1>3. CASE c \in merged
  <2>1. PICK m \in new \cap lParent.merges : c \in L!CommitsOf(m)
    BY <1>3
  <2> QED
    BY <1>1, <1>2, <2>1
<1>4. CASE c \notin merged
  <2>1. c \in L!CommitsOf(c)
    BY DEF L!CommitsOf
  <2> QED
    BY <1>1, <1>2, <1>4, <2>1
<1> QED
  BY <1>3, <1>4

\* A scan writes the cursor and the candidates of its copy, and nothing else is in it.
LEMMA CopyIs ==
    ASSUME NEW copy \in Inbox0, NEW cursor, NEW all
    PROVE  /\ [copy EXCEPT !.cursor = cursor, !.candidates = all]
                = [cursor |-> cursor, candidates |-> all]
           /\ [copy EXCEPT !.candidates = all] = [cursor |-> copy.cursor, candidates |-> all]
<1>1. copy = [cursor |-> copy.cursor, candidates |-> copy.candidates]
  BY DEF Inbox0
<1>2. ASSUME NEW a, NEW b
      PROVE  /\ [[cursor |-> a, candidates |-> b] EXCEPT !.candidates = all] = [cursor |-> a, candidates |-> all]
             /\ [[cursor |-> a, candidates |-> b] EXCEPT !.cursor = cursor, !.candidates = all]
                  = [cursor |-> cursor, candidates |-> all]
  <2> DEFINE x == [[cursor |-> a, candidates |-> b] EXCEPT !.cursor = cursor, !.candidates = all]
             y == [cursor |-> cursor, candidates |-> all]
  <2>1. x.cursor = cursor /\ x.candidates = all /\ DOMAIN x = {"cursor", "candidates"}
    OBVIOUS
  <2>2. x = [f \in DOMAIN x |-> x[f]] /\ y = [f \in DOMAIN y |-> y[f]]
    OBVIOUS
  <2>3. y.cursor = cursor /\ y.candidates = all /\ DOMAIN y = {"cursor", "candidates"}
    OBVIOUS
  <2>4. x = y
    <3> HIDE DEF x, y
    <3> QED
      BY <2>1, <2>2, <2>3
  <2> QED
    BY <2>4
<1> QED
  BY <1>1, <1>2, Zenon

\* What a scan makes of a candidate.
LEMMA MergedIs ==
    ASSUME NEW old \in Known0, NEW diff \in BOOLEAN
    PROVE  /\ L!Merged(old, diff) \in Known0 /\ L!Retried(old) \in Known0
           /\ L!Merged(old, diff).status # "unknown" /\ L!Retried(old).status = old.status
           /\ (old.judged = "assessed" => old.seen = old.diff)
                => Follows(old, L!Merged(old, diff)) /\ Follows(old, L!Retried(old)) /\ Follows(old, old)
<1> DEFINE full == old.diff \/ diff
           status == IF old.status = "unknown" THEN "pending" ELSE old.status
           judged == IF old.judged = "assessed" /\ full = old.diff THEN "assessed" ELSE "pending"
<1>1. /\ full \in BOOLEAN /\ judged \in {"pending", "failed", "assessed"}
      /\ status \in {"unknown", "pending", "ignored", "linked", "adopted"} /\ status # "unknown"
  BY DEF Known0
<1>2. L!Merged(old, diff) = [old EXCEPT !.status = status, !.diff = full, !.judged = judged]
  BY DEF L!Merged
<1>3. /\ L!Retried(old) \in Known0 /\ L!Retried(old).status = old.status
      /\ L!Retried(old).judged = "pending"
  BY DEF L!Retried, Known0
<1>4. status = old.status \/ (old.status = "unknown" /\ status = "pending")
  OBVIOUS
<1>5. judged = "assessed" => old.judged = "assessed" /\ full = old.diff
  OBVIOUS
<1> HIDE DEF full, status, judged
<1>6. /\ L!Merged(old, diff) \in Known0 /\ L!Merged(old, diff).status = status
      /\ L!Merged(old, diff).diff = full /\ L!Merged(old, diff).judged = judged
      /\ L!Merged(old, diff).seen = old.seen
  BY <1>1, <1>2 DEF Known0
<1> QED
  BY <1>1, <1>3, <1>4, <1>5, <1>6 DEF Follows

LEMMA ScanMergesKeeps ==
    ASSUME LineageInv, NEW d \in L!Daemons, L!ScanMerges(d)
    PROVE  LineageInv'
<1> DEFINE h == lHandler[d]
           new == IF h.copy.cursor = h.latest \/ ~L!CursorFound(h.copy.cursor) THEN {}
                  ELSE L!ChangesAfter(h.copy.cursor)
           One(c, read, diffs, retried) ==
              IF c \in retried /\ h.copy.candidates[c].status = "pending" /\ ~h.copy.candidates[c].diff
              THEN L!Retried(h.copy.candidates[c])
              ELSE IF c \in read THEN L!Merged(h.copy.candidates[c], c \in diffs)
              ELSE h.copy.candidates[c]
           Candidates(read, diffs, retried) == [c \in L!Changes |-> One(c, read, diffs, retried)]
<1>1. /\ h.at = "merge"
      /\ UNCHANGED <<lParent, lInbox, lQueue, lTasks, lEpoch, lWorker, lAgain, lEvents, lOverlapped>>
  BY DEF L!ScanMerges
<1>2. /\ lHandler \in [L!Daemons -> LHandler] /\ h \in LHandler /\ lParent.head \in 0..MaxChanges
      /\ lInbox \in Inbox0 /\ \A e \in L!Daemons : Knows(e)
  BY DEF LineageInv, LTypes, Knows
<1>3. /\ h.copy \in Inbox0 /\ h.copy.cursor \in 0..MaxChanges /\ h.latest \in 0..MaxChanges
      /\ h.copy.candidates \in [L!Changes -> Known0]
  BY <1>2 DEF LHandler, Inbox0
<1>4. PICK cursor \in {h.copy.cursor, h.latest},
            read, diffs, retried \in SUBSET L!Changes :
        /\ lHandler' = [lHandler EXCEPT ![d] =
              [h EXCEPT !.at = "save", !.copy = [cursor |-> cursor,
                        candidates |-> Candidates(read, diffs, retried)]]]
        /\ cursor = h.copy.cursor \/ (read = new /\ L!CursorFound(h.copy.cursor))
  <2>0. new \subseteq L!Changes
    BY DEF L!ChangesAfter, L!CommitsAfter
  <2>1. ASSUME NEW diffs \in SUBSET new, NEW retried \in {{}, L!Changes},
               h.copy.cursor = h.latest \/ L!CursorFound(h.copy.cursor),
               L!Handle(d, [h EXCEPT !.at = "save", !.copy.cursor = h.latest,
                                     !.copy.candidates = Candidates(new, diffs, retried)])
        PROVE  \E read, diffs1, retried1 \in SUBSET L!Changes :
                 /\ lHandler' = [lHandler EXCEPT ![d] =
                       [h EXCEPT !.at = "save", !.copy = [cursor |-> h.latest,
                                 candidates |-> Candidates(read, diffs1, retried1)]]]
                 /\ h.latest = h.copy.cursor \/ (read = new /\ L!CursorFound(h.copy.cursor))
    <3> DEFINE all == Candidates(new, diffs, retried)
    <3>1. [h.copy EXCEPT !.cursor = h.latest, !.candidates = all] = [cursor |-> h.latest, candidates |-> all]
      BY <1>3, CopyIs, ZenonT(30)
    <3>2. lHandler' = [lHandler EXCEPT ![d] = [h EXCEPT !.at = "save", !.copy =
                          [h.copy EXCEPT !.cursor = h.latest, !.candidates = all]]]
      BY <1>2, <2>1 DEF L!Handle, LHandler
    <3> HIDE DEF Candidates
    <3> QED
      BY <2>0, <2>1, <3>1, <3>2
  <2>2. ASSUME L!Handle(d, [h EXCEPT !.at = "save"])
        PROVE  \E read, diffs, retried \in SUBSET L!Changes :
                 lHandler' = [lHandler EXCEPT ![d] =
                    [h EXCEPT !.at = "save", !.copy = [cursor |-> h.copy.cursor,
                              candidates |-> Candidates(read, diffs, retried)]]]
    <3>1. Candidates({}, {}, {}) = h.copy.candidates
      BY <1>3
    <3>2. [h EXCEPT !.at = "save"] =
             [h EXCEPT !.at = "save", !.copy = [cursor |-> h.copy.cursor, candidates |-> h.copy.candidates]]
      BY <1>2, <1>3 DEF LHandler, Inbox0
    <3> HIDE DEF Candidates
    <3>3. lHandler' = [lHandler EXCEPT ![d] = [h EXCEPT !.at = "save"]]
      BY <2>2 DEF L!Handle
    <3>4. lHandler' = [lHandler EXCEPT ![d] =
             [h EXCEPT !.at = "save", !.copy = [cursor |-> h.copy.cursor,
                       candidates |-> Candidates({}, {}, {})]]]
      BY <3>1, <3>2, <3>3, Zenon
    <3>5. {} \in SUBSET L!Changes
      OBVIOUS
    <3> QED
      BY <3>4, <3>5, Zenon
  <2>3. ASSUME NEW read \in SUBSET new,
               L!Handle(d, [h EXCEPT !.at = "save", !.copy.candidates = Candidates(read, read, {})])
        PROVE  \E read1, diffs, retried \in SUBSET L!Changes :
                 lHandler' = [lHandler EXCEPT ![d] =
                    [h EXCEPT !.at = "save", !.copy = [cursor |-> h.copy.cursor,
                              candidates |-> Candidates(read1, diffs, retried)]]]
    <3> DEFINE all == Candidates(read, read, {})
    <3>1. [h.copy EXCEPT !.candidates = all] = [cursor |-> h.copy.cursor, candidates |-> all]
      BY <1>3, CopyIs
    <3>2. lHandler' = [lHandler EXCEPT ![d] = [h EXCEPT !.at = "save", !.copy =
                          [h.copy EXCEPT !.candidates = all]]]
      BY <1>2, <2>3 DEF L!Handle, LHandler
    <3> HIDE DEF Candidates
    <3>3. lHandler' = [lHandler EXCEPT ![d] =
             [h EXCEPT !.at = "save", !.copy = [cursor |-> h.copy.cursor,
                       candidates |-> Candidates(read, read, {})]]]
      BY <3>1, <3>2, Zenon
    <3>4. read \in SUBSET L!Changes /\ {} \in SUBSET L!Changes
      BY <2>0, <2>3
    <3> QED
      BY <3>3, <3>4, Zenon
  <2>4. \/ \E diffs \in SUBSET new, retried \in {{}, L!Changes} :
              /\ h.copy.cursor = h.latest \/ L!CursorFound(h.copy.cursor)
              /\ L!Handle(d, [h EXCEPT !.at = "save", !.copy.cursor = h.latest,
                                       !.copy.candidates = Candidates(new, diffs, retried)])
        \/ L!Handle(d, [h EXCEPT !.at = "save"])
        \/ \E read \in SUBSET new :
              L!Handle(d, [h EXCEPT !.at = "save", !.copy.candidates = Candidates(read, read, {})])
    BY ZenonT(60) DEF L!ScanMerges
  <2> HIDE DEF Candidates, new
  <2> QED
    BY <2>1, <2>2, <2>3, <2>4
<1> DEFINE all == Candidates(read, diffs, retried)
<1>5. ASSUME NEW c \in L!Changes
      PROVE  /\ all[c] \in Known0
             /\ h.copy.candidates[c].status # "unknown" => all[c].status # "unknown"
             /\ c \in read => all[c].status # "unknown"
             /\ (h.copy.candidates[c].judged = "assessed"
                    => h.copy.candidates[c].seen = h.copy.candidates[c].diff)
                  => Follows(h.copy.candidates[c], all[c])
  <2>1. h.copy.candidates[c] \in Known0 /\ (c \in diffs) \in BOOLEAN
    BY <1>3, <1>5
  <2>2. all[c] = One(c, read, diffs, retried)
    BY <1>5
  <2> QED
    BY <2>1, <2>2, MergedIs
<1> DEFINE copy == [cursor |-> cursor, candidates |-> all]
           next == [h EXCEPT !.at = "save", !.copy = copy]
<1>6. copy \in Inbox0 /\ copy.cursor = cursor /\ copy.candidates = all
  <2>1. all \in [L!Changes -> Known0]
    BY <1>5
  <2> HIDE DEF all
  <2> QED
    BY <1>3, <1>4, <2>1 DEF Inbox0
<1>6a. lHandler' = [lHandler EXCEPT ![d] = next]
  BY <1>4
<1> HIDE DEF all, copy
<1>7. /\ next \in LHandler /\ next.at = "save" /\ next.event = h.event /\ next.change = h.change
      /\ next.latest = h.latest /\ next.copy = copy
  BY <1>2, <1>6 DEF LHandler
<1> HIDE DEF next
<1>8. /\ lHandler' \in [L!Daemons -> LHandler] /\ lHandler'[d] = next
      /\ \A e \in L!Daemons \ {d} : lHandler'[e] = lHandler[e]
  BY <1>2, <1>6a, <1>7
<1>9. LTypes' /\ TasksInv' /\ InboxIsComplete'
  BY <1>1, <1>8 DEF LineageInv, LTypes, TasksInv, InboxIsComplete, L!CommitsOf
<1>10. ASSUME NEW c \in 1..cursor
       PROVE  \E m \in L!Changes : c \in L!CommitsOf(m) /\ all[m].status # "unknown"
  <2>1. CASE c \in 1..h.copy.cursor
    <3>1. PICK m \in L!Changes : c \in L!CommitsOf(m) /\ h.copy.candidates[m].status # "unknown"
      BY <1>2, <2>1 DEF Knows, CopyIsComplete
    <3> QED
      BY <1>5, <3>1
  <2>2. CASE c \notin 1..h.copy.cursor
    <3>1. cursor = h.latest /\ cursor # h.copy.cursor /\ read = new /\ L!CursorFound(h.copy.cursor)
      BY <1>4, <1>10, <2>2
    <3>2. read = L!ChangesAfter(h.copy.cursor)
      BY <3>1
    <3>3. h.latest <= lParent.head
      BY <1>2 DEF Knows, HandlerInv
    <3>4. c \in L!Changes /\ h.copy.cursor < c /\ c <= lParent.head
      BY <1>2, <1>3, <1>10, <2>2, <3>1, <3>3, ChangesAssumption DEF L!Changes
    <3>5. PICK m \in L!Changes : m \in L!ChangesAfter(h.copy.cursor) /\ c \in L!CommitsOf(m)
      BY <1>3, <3>4, NewChangesAreRead
    <3> QED
      BY <1>5, <3>2, <3>5
  <2> QED
    BY <2>1, <2>2
<1>11. ASSUME NEW e \in L!Daemons PROVE Knows(e)'
  <2>1. CASE e # d
    BY <1>1, <1>2, <1>8, <1>11, <2>1, KnowsStill DEF L!Assigned
  <2>2. CASE e = d
    <3>1. CopyIsComplete(d)'
      BY <1>1, <1>6, <1>7, <1>8, <1>10 DEF CopyIsComplete, L!CommitsOf
    <3>2. HandlerInv(d)' /\ WorkerInv(d)'
      BY <1>1, <1>2, <1>7, <1>8 DEF Knows, HandlerInv, WorkerInv
    <3> QED
      BY <2>2, <3>1, <3>2 DEF Knows
  <2> QED
    BY <2>1, <2>2
<1>12. ASSUME ~lOverlapped' PROVE d = lEpoch /\ Alone(d)'
  <2>1. d = lEpoch /\ Alone(d)
    BY <1>1, <1>12, LineageAlone
  <2>2. Others(d)' /\ JudgesAlone(d)' /\ OneOfEach'
    BY <1>1, <1>8, <2>1 DEF Alone, Others, JudgesAlone, Ahead, OneOfEach, L!Idle, L!NoWorker
  <2>3. h.copy = lInbox /\ lQueue.status = "none"
    BY <1>1, <2>1 DEF Alone, ScanAlone
  <2>4. \A c \in L!Changes : Follows(lInbox.candidates[c], all[c])
    BY <1>5, <2>1, <2>3 DEF Alone, OneOfEach
  <2>5. ScanAlone(d)'
    BY <1>1, <1>6, <1>7, <1>8, <2>1, <2>3, <2>4 DEF Alone, ScanAlone
  <2>6. lAgain = {} /\ \A t \in DOMAIN lTasks : LinkedYet(t)
    BY <1>1, <2>1 DEF Alone, LinkAlone, LinkedSoon
  <2>7. LinkAlone(d)'
    BY <1>1, <1>7, <1>8, <2>6 DEF LinkAlone, LinkedYet
  <2> QED
    BY <2>1, <2>2, <2>5, <2>7 DEF Alone
<1> QED
  BY <1>1, <1>9, <1>11, <1>12 DEF LineageInv, Knows

\* A task for each event at most: there are no more tasks than events.
LEMMA FewTasks ==
    ASSUME LTypes, TasksInv
    PROVE  Len(lTasks) <= MaxEvents
<1>1. /\ lTasks \in Seq(LTask) /\ Len(lTasks) \in Nat /\ DOMAIN lTasks = 1..Len(lTasks)
      /\ \A t, u \in DOMAIN lTasks : lTasks[t].event = lTasks[u].event => t = u
  BY DEF LTypes, TasksInv
<1>2. \A t \in DOMAIN lTasks : lTasks[t].event \in 1..MaxEvents
  <2>1. \A t \in DOMAIN lTasks : lTasks[t] \in LTask
    BY <1>1
  <2> QED
    BY <2>1 DEF LTask
<1> DEFINE n == Len(lTasks)
           f == [t \in 1..n |-> lTasks[t].event]
<1>3. f \in Injection(1..n, 1..MaxEvents)
  <2>1. f \in [1..n -> 1..MaxEvents]
    BY <1>1, <1>2
  <2>2. \A t, u \in 1..n : f[t] = f[u] => t = u
    BY <1>1
  <2> HIDE DEF f
  <2> QED
    BY <2>1, <2>2, Zenon DEF Injection, IsInjective
<1> HIDE DEF f
<1>4. /\ IsFiniteSet(1..MaxEvents)
      /\ Cardinality(1..MaxEvents) = (IF 1 > MaxEvents THEN 0 ELSE MaxEvents - 1 + 1)
  <2>1. 1 \in Int /\ MaxEvents \in Int
    BY ChangesAssumption
  <2> QED
    BY <2>1, FS_Interval
<1>5. Cardinality(1..n) = (IF 1 > n THEN 0 ELSE n - 1 + 1)
  <2>1. 1 \in Int /\ n \in Int
    BY <1>1
  <2> QED
    BY <2>1, FS_Interval
<1>6. Cardinality(1..n) <= Cardinality(1..MaxEvents)
  BY <1>3, <1>4, FS_Injection
<1> QED
  BY <1>1, <1>4, <1>5, <1>6, ChangesAssumption

LEMMA AdoptKeeps ==
    ASSUME LineageInv, NEW d \in L!Daemons, L!Adopt(d)
    PROVE  LineageInv'
<1> DEFINE h == lHandler[d]
           known == lInbox.candidates[h.change]
           adopts == known.status \in {"pending", "ignored"} /\ known.judged = "assessed"
           linking == [h EXCEPT !.at = "link"]
           task == [change |-> h.change, event |-> h.event, status |-> "active"]
<1>1. /\ h.at = "command"
      /\ \/ /\ adopts /\ lTasks' = IF L!Assigned(h.event) THEN lTasks ELSE Append(lTasks, task)
            /\ lHandler' = [lHandler EXCEPT ![d] = linking]
         \/ ~adopts /\ lHandler' = [lHandler EXCEPT ![d] = L!Done(d)] /\ lTasks' = lTasks
      /\ UNCHANGED <<lParent, lInbox, lQueue, lEpoch, lWorker, lAgain, lEvents, lOverlapped>>
  BY DEF L!Adopt, L!Handle
<1>2. /\ lHandler \in [L!Daemons -> LHandler] /\ lParent.head \in 0..MaxChanges
      /\ lTasks \in Seq(LTask) /\ lAgain \subseteq L!Changes \X (1..MaxEvents)
      /\ \A e \in L!Daemons : Knows(e)
      /\ \A t, u \in DOMAIN lTasks : lTasks[t].event = lTasks[u].event => t = u
  BY DEF LineageInv, LTypes, Knows, TasksInv
<1>3. /\ h.change \in L!Changes /\ h.event \in 1..MaxEvents /\ h \in LHandler
      /\ h.latest <= lParent.head
  <2>1. h.event # 0 /\ h.change \in L!Changes /\ h.latest <= lParent.head
    BY <1>1, <1>2 DEF Knows, HandlerInv
  <2>2. h.event \in 0..MaxEvents /\ h \in LHandler
    BY <1>2 DEF LHandler
  <2> QED
    BY <2>1, <2>2
<1>4. /\ linking \in LHandler /\ linking.at = "link" /\ linking.event = h.event
      /\ linking.change = h.change /\ linking.latest = h.latest /\ linking.copy = h.copy
  BY <1>2 DEF LHandler
<1>5. task \in LTask /\ task.change = h.change /\ task.event = h.event
  BY <1>3 DEF LTask
<1> HIDE DEF linking, task
<1>6. PICK next \in {L!Done(d), linking} :
        /\ lHandler' = [lHandler EXCEPT ![d] = next] /\ next \in LHandler
        /\ next = linking => adopts /\ lTasks' = IF L!Assigned(h.event) THEN lTasks ELSE Append(lTasks, task)
        /\ next # linking => ~adopts /\ lTasks' = lTasks
        /\ lHandler' \in [L!Daemons -> LHandler] /\ lHandler'[d] = next
        /\ \A e \in L!Daemons \ {d} : lHandler'[e] = lHandler[e]
  <2>1. L!Done(d) # linking
    BY <1>4, LineageDone
  <2> QED
    BY <1>1, <1>2, <1>4, <2>1, LineageDone
<1>7. /\ lTasks' \in Seq(LTask)
      /\ \A t \in DOMAIN lTasks : t \in DOMAIN lTasks' /\ lTasks'[t] = lTasks[t]
      /\ \/ lTasks' = lTasks /\ (next = linking => L!Assigned(h.event))
         \/ /\ next = linking /\ ~L!Assigned(h.event)
            /\ \E n \in DOMAIN lTasks' : /\ lTasks'[n] = task
                                         /\ DOMAIN lTasks' \ {n} = DOMAIN lTasks
  <2>1. CASE lTasks' = lTasks /\ (next = linking => L!Assigned(h.event))
    BY <1>2, <2>1
  <2>2. CASE next = linking /\ ~L!Assigned(h.event) /\ lTasks' = Append(lTasks, task)
    <3> DEFINE n == Len(lTasks) + 1
    <3>1. /\ Len(lTasks) \in Nat /\ DOMAIN lTasks = 1..Len(lTasks)
          /\ DOMAIN lTasks' = 1..n /\ lTasks'[n] = task
          /\ \A t \in 1..Len(lTasks) : lTasks'[t] = lTasks[t]
      BY <1>2, <1>5, <2>2
    <3> HIDE DEF n
    <3>2. n \in DOMAIN lTasks' /\ DOMAIN lTasks' \ {n} = DOMAIN lTasks
      BY <3>1 DEF n
    <3>3. lTasks' \in Seq(LTask)
      BY <1>2, <1>5, <2>2
    <3>4. \A t \in DOMAIN lTasks : t \in DOMAIN lTasks' /\ lTasks'[t] = lTasks[t]
      BY <3>1, <3>2
    <3> QED
      BY <2>2, <3>1, <3>2, <3>3, <3>4
  <2> QED
    BY <1>6, <2>1, <2>2
<1>8. TasksInv'
  <2>1. \A t \in DOMAIN lTasks : ~L!Assigned(h.event) => lTasks[t].event # task.event
    BY <1>5 DEF L!Assigned
  <2> QED
    BY <1>2, <1>7, <2>1 DEF TasksInv
<1>9. LTypes' /\ InboxIsComplete'
  BY <1>1, <1>6, <1>7 DEF LineageInv, LTypes, InboxIsComplete, L!CommitsOf
<1>10. \A v \in 0..MaxEvents : L!Assigned(v) => L!Assigned(v)'
  BY <1>7 DEF L!Assigned
<1>11. ASSUME NEW e \in L!Daemons PROVE Knows(e)'
  <2>1. CASE e # d
    BY <1>1, <1>2, <1>6, <1>10, <1>11, <2>1, KnowsStill
  <2>2. CASE e = d /\ next = L!Done(d)
    <3>1. lParent'.head \in Nat /\ WorkerInv(d)'
      BY <1>1, <1>2, ChangesAssumption DEF WorkerInv, Knows
    <3> QED
      BY <1>6, <2>2, <3>1, LineageDone, KnowsIdle
  <2>3. CASE e = d /\ next = linking
    <3>1. CopyIsComplete(d)' /\ WorkerInv(d)'
      BY <1>1, <1>2, <1>4, <1>6, <2>3, SMTT(30) DEF CopyIsComplete, L!CommitsOf, WorkerInv, Knows
    <3>2. \E t \in DOMAIN lTasks' : lTasks'[t].event = h.event
      <4>1. CASE L!Assigned(h.event)
        BY <1>7, <4>1 DEF L!Assigned
      <4>2. CASE ~L!Assigned(h.event)
        <5>1. \E n \in DOMAIN lTasks' : lTasks'[n] = task
          BY <1>7, <2>3, <4>2
        <5> QED
          BY <1>5, <5>1 DEF L!Assigned
      <4> QED
        BY <4>1, <4>2
    <3>3. HandlerInv(d)'
      <4>1. lHandler'[d].event = h.event /\ h.event # 0
        BY <1>3, <1>4, <1>6, <2>3
      <4> QED
        BY <1>1, <1>3, <1>4, <1>6, <2>3, <3>2, <4>1 DEF HandlerInv, L!Assigned
    <3> QED
      BY <2>3, <3>1, <3>3 DEF Knows
  <2> QED
    BY <1>6, <2>1, <2>2, <2>3
<1>12. ASSUME ~lOverlapped' PROVE d = lEpoch /\ Alone(d)'
  <2>1. d = lEpoch /\ Alone(d)
    BY <1>1, <1>12, LineageAlone
  <2>2. Others(d)' /\ JudgesAlone(d)'
    BY <1>1, <1>6, <2>1 DEF Alone, Others, JudgesAlone, Ahead, L!Idle, L!NoWorker
  <2>3. next.at \in {"none", "link"} /\ (next = linking \/ next.at = "none")
    BY <1>4, <1>6, <2>1, LineageDone, LineageIdle
  <2>4. ScanAlone(d)'
    BY <1>1, <1>6, <2>1, <2>3 DEF Alone, ScanAlone
  <2>5. lAgain = {}
    BY <1>1, <2>1 DEF Alone, LinkAlone
  <2>6. ASSUME NEW t \in DOMAIN lTasks
        PROVE  \/ LinkedYet(t)
               \/ /\ adopts /\ lTasks[t].change = h.change /\ lTasks[t].event = h.event
    BY <1>1, <2>1, <2>5, <2>6 DEF Alone, LinkAlone, LinkedSoon
  <2>7. CASE next = linking
    <3>1. adopts /\ lHandler'[d].at = "link" /\ lHandler'[d].change = h.change /\ lHandler'[d].event = h.event
      BY <1>4, <1>6, <2>7
    <3>2. ASSUME NEW t \in DOMAIN lTasks' PROVE LinkedYet(t)' \/ LinkedSoon(d, t)'
      <4>1. CASE t \in DOMAIN lTasks /\ LinkedYet(t)
        BY <1>1, <1>7, <4>1 DEF LinkedYet
      <4>2. CASE lTasks'[t].change = h.change /\ lTasks'[t].event = h.event
        BY <1>1, <3>1, <4>2 DEF LinkedSoon
      <4> QED
        BY <1>5, <1>7, <2>6, <3>2, <4>1, <4>2
    <3>3. LinkAlone(d)'
      BY <1>1, <2>5, <3>1, <3>2 DEF LinkAlone
    <3>4. ~L!Assigned(h.event) => \A t \in DOMAIN lTasks : lTasks[t].change # h.change
      BY <2>6, <3>1 DEF L!Assigned, LinkedYet
    <3>5. OneOfEach'
      BY <1>1, <1>5, <1>7, <2>1, <3>4 DEF Alone, OneOfEach
    <3> QED
      BY <2>1, <2>2, <2>4, <3>3, <3>5 DEF Alone
  <2>8. CASE next # linking
    <3>1. ~adopts /\ lTasks' = lTasks /\ lHandler'[d].at = "none"
      BY <1>6, <2>3, <2>8
    <3>2. LinkAlone(d)' /\ OneOfEach'
      BY <1>1, <2>1, <2>5, <2>6, <3>1 DEF Alone, LinkAlone, LinkedYet, OneOfEach
    <3> QED
      BY <2>1, <2>2, <2>4, <3>2 DEF Alone
  <2> QED
    BY <2>7, <2>8
<1> QED
  BY <1>1, <1>8, <1>9, <1>11, <1>12 DEF LineageInv, Knows

LEMMA LinkKeeps ==
    ASSUME LineageInv, NEW d \in L!Daemons, L!Link(d)
    PROVE  LineageInv'
<1> DEFINE h == lHandler[d]
           c == h.change
           t0 == L!TaskOf(h.event)
           linked == [lInbox.candidates[c] EXCEPT !.status = "linked", !.task = t0]
           ended == [lTasks[t0] EXCEPT !.status = IF @ = "active" THEN "cancelled" ELSE @]
<1>1. /\ h.at = "link" /\ lHandler' = [lHandler EXCEPT ![d] = L!Done(d)]
      /\ UNCHANGED <<lParent, lQueue, lEpoch, lWorker, lAgain, lEvents, lOverlapped>>
  BY DEF L!Link, L!Handle
<1>2. /\ lHandler \in [L!Daemons -> LHandler] /\ lParent.head \in 0..MaxChanges
      /\ lTasks \in Seq(LTask) /\ lInbox \in Inbox0 /\ \A e \in L!Daemons : Knows(e)
  BY DEF LineageInv, LTypes, Knows
<1>3. c \in L!Changes /\ t0 \in DOMAIN lTasks
  <2>1. c \in L!Changes /\ L!Assigned(h.event)
    BY <1>1, <1>2 DEF Knows, HandlerInv
  <2> QED
    BY <2>1 DEF L!Assigned, L!TaskOf
<1>4. t0 \in 0..MaxEvents
  <2>1. t0 \in 1..Len(lTasks) /\ Len(lTasks) \in Nat /\ Len(lTasks) <= MaxEvents
    BY <1>2, <1>3, FewTasks DEF LineageInv
  <2> QED
    BY <2>1, ChangesAssumption
<1>5. \/ /\ lInbox.candidates[c].status # "unknown" /\ lTasks' = lTasks
         /\ lInbox' = [lInbox EXCEPT !.candidates = [lInbox.candidates EXCEPT ![c] = linked]]
      \/ /\ lInbox.candidates[c].status = "unknown" /\ lInbox' = lInbox
         /\ lTasks' = [lTasks EXCEPT ![t0] = ended]
  <2>1. CASE L!Known(lInbox.candidates, c)
    <3>1. lInbox' = [lInbox EXCEPT !.candidates[c].status = "linked", !.candidates[c].task = t0]
      BY <2>1 DEF L!Link
    <3>2. lInbox' = [lInbox EXCEPT !.candidates = [lInbox.candidates EXCEPT ![c] = linked]]
      BY <1>2, <1>3, <3>1 DEF Inbox0, Known0
    <3> QED
      BY <2>1, <3>2 DEF L!Link, L!Known
  <2>2. CASE ~L!Known(lInbox.candidates, c)
    BY <2>2 DEF L!Link, L!Known
  <2> QED
    BY <2>1, <2>2
<1>6. /\ linked \in Known0 /\ linked.status = "linked"
      /\ SameJudgement(lInbox.candidates[c], linked)
  <2>1. lInbox.candidates[c] \in Known0
    BY <1>2, <1>3 DEF Inbox0
  <2> HIDE DEF t0
  <2> QED
    BY <1>4, <2>1 DEF Known0, SameJudgement
<1>7. ended \in LTask /\ ended.change = lTasks[t0].change /\ ended.event = lTasks[t0].event
  <2>1. lTasks[t0] \in LTask
    BY <1>2, <1>3
  <2> HIDE DEF t0
  <2> QED
    BY <2>1 DEF LTask
<1> HIDE DEF linked, ended, t0
<1>8. /\ lInbox' \in Inbox0 /\ lInbox'.cursor = lInbox.cursor
      /\ \A m \in L!Changes \ {c} : lInbox'.candidates[m] = lInbox.candidates[m]
      /\ \/ lInbox.candidates[c].status # "unknown" /\ lInbox'.candidates[c] = linked
         \/ lInbox.candidates[c].status = "unknown" /\ lInbox'.candidates[c] = lInbox.candidates[c]
  BY <1>2, <1>3, <1>5, <1>6 DEF Inbox0
<1>9. /\ lTasks' \in Seq(LTask) /\ DOMAIN lTasks' = DOMAIN lTasks
      /\ \A t \in DOMAIN lTasks : /\ lTasks'[t].change = lTasks[t].change
                                  /\ lTasks'[t].event = lTasks[t].event
  BY <1>2, <1>3, <1>5, <1>7
<1>10. /\ lHandler' \in [L!Daemons -> LHandler] /\ lHandler'[d] = L!Done(d)
       /\ \A e \in L!Daemons \ {d} : lHandler'[e] = lHandler[e]
  BY <1>1, <1>2, LineageDone
<1>11. LTypes' /\ TasksInv'
  BY <1>1, <1>8, <1>9, <1>10 DEF LineageInv, LTypes, TasksInv
<1>12. InboxIsComplete'
  BY <1>1, <1>6, <1>8 DEF LineageInv, InboxIsComplete, L!CommitsOf
<1>13. ASSUME NEW e \in L!Daemons PROVE Knows(e)'
  <2>1. CASE e # d
    BY <1>1, <1>2, <1>9, <1>10, <1>13, <2>1, KnowsStill DEF L!Assigned
  <2>2. CASE e = d
    <3>1. lParent'.head \in Nat /\ WorkerInv(d)'
      BY <1>1, <1>2, ChangesAssumption DEF WorkerInv, Knows
    <3> QED
      BY <1>10, <2>2, <3>1, LineageDone, KnowsIdle
  <2> QED
    BY <2>1, <2>2
<1>14. ASSUME ~lOverlapped' PROVE d = lEpoch /\ Alone(d)'
  <2>1. d = lEpoch /\ Alone(d)
    BY <1>1, <1>14, LineageAlone
  <2>2. lInbox.candidates[c].status # "unknown" /\ lInbox'.candidates[c] = linked /\ lAgain = {}
    BY <1>1, <1>8, <2>1 DEF Alone, LinkAlone
  <2>3. lHandler'[d].at = "none"
    BY <1>10, <2>1, LineageDone, LineageIdle
  <2>4. Others(d)'
    BY <1>1, <1>10, <2>1 DEF Alone, Others, L!Idle, L!NoWorker
  <2>5. ScanAlone(d)'
    BY <1>1, <2>1, <2>3 DEF Alone, ScanAlone
  <2>6. JudgesAlone(d)'
    BY <1>1, <1>6, <1>8, <2>1, <2>2 DEF Alone, JudgesAlone, Ahead, SameJudgement
  <2>7. ASSUME NEW t \in DOMAIN lTasks PROVE LinkedYet(t)'
    <3>1. lTasks[t].change \in L!Changes
      BY <1>2, <2>7, LineageTask
    <3>2. LinkedYet(t) \/ lTasks[t].change = c
      BY <2>1, <2>2, <2>7 DEF Alone, LinkAlone, LinkedSoon
    <3> QED
      BY <1>6, <1>8, <1>9, <2>2, <3>1, <3>2 DEF LinkedYet
  <2>8. LinkAlone(d)'
    BY <1>1, <1>9, <2>2, <2>3, <2>7 DEF LinkAlone
  <2>9. OneOfEach'
    BY <1>1, <1>6, <1>8, <1>9, <2>1, <2>2 DEF Alone, OneOfEach, SameJudgement
  <2> QED
    BY <2>1, <2>4, <2>5, <2>6, <2>8, <2>9 DEF Alone
<1> QED
  BY <1>1, <1>11, <1>12, <1>13, <1>14 DEF LineageInv, Knows

LEMMA ClaimKeeps ==
    ASSUME LineageInv, NEW d \in L!Daemons, L!Claim(d)
    PROVE  LineageInv'
<1> DEFINE todo == L!ToAssess(lInbox.candidates) \cap lQueue.changes
           diffs == {c \in todo : lInbox.candidates[c].diff}
           batch == [L!NoWorker EXCEPT !.at = "batch", !.todo = todo, !.diffs = diffs]
           turned == [lHandler[d] EXCEPT !.at = IF @ = "turn" THEN "none" ELSE @]
<1>1. /\ d = lEpoch \/ lHandler[d].at = "turn"
      /\ lWorker[d].at = "none" /\ lQueue.status # "none"
      /\ lQueue' = [lQueue EXCEPT !.status = "running", !.owner = d]
      /\ lWorker' = [lWorker EXCEPT ![d] = batch] /\ lHandler' = [lHandler EXCEPT ![d] = turned]
      /\ UNCHANGED <<lParent, lInbox, lTasks, lEpoch, lAgain, lEvents, lOverlapped>>
  BY DEF L!Claim, L!Work
<1>2. /\ lHandler \in [L!Daemons -> LHandler] /\ lWorker \in [L!Daemons -> LWorker]
      /\ lQueue \in LQueue /\ lInbox \in Inbox0 /\ \A e \in L!Daemons : Knows(e)
  BY DEF LineageInv, LTypes, Knows
<1>3. /\ todo \subseteq L!Changes /\ diffs \subseteq L!Changes
      /\ \A c \in todo : lInbox.candidates[c].judged # "assessed"
      /\ \A c \in todo : c \in diffs <=> lInbox.candidates[c].diff
  BY DEF L!ToAssess, L!Pending
<1>4. turned \in LHandler /\ turned.at = (IF lHandler[d].at = "turn" THEN "none" ELSE lHandler[d].at)
      /\ turned.event = lHandler[d].event /\ turned.change = lHandler[d].change
      /\ turned.latest = lHandler[d].latest /\ turned.copy = lHandler[d].copy
  BY <1>2 DEF LHandler
<1> HIDE DEF todo, diffs, turned
<1>5. batch \in LWorker /\ batch.at = "batch" /\ batch.todo = todo /\ batch.diffs = diffs
  BY <1>3, LineageIdle DEF LWorker
<1> HIDE DEF batch
<1>6. lQueue' \in LQueue /\ lQueue'.status = "running"
  <2>1. d \in 0..MaxDaemons
    BY ChangesAssumption DEF L!Daemons
  <2> QED
    BY <1>1, <1>2, <2>1 DEF LQueue
<1>7. /\ lHandler' \in [L!Daemons -> LHandler] /\ lWorker' \in [L!Daemons -> LWorker]
      /\ lHandler'[d] = turned /\ lWorker'[d] = batch
      /\ \A e \in L!Daemons \ {d} : lHandler'[e] = lHandler[e] /\ lWorker'[e] = lWorker[e]
  BY <1>1, <1>2, <1>4, <1>5
<1>8. LTypes' /\ TasksInv' /\ InboxIsComplete'
  BY <1>1, <1>6, <1>7 DEF LineageInv, LTypes, TasksInv, InboxIsComplete, L!CommitsOf
<1>9. ASSUME NEW e \in L!Daemons PROVE Knows(e)'
  <2>1. CASE e # d
    BY <1>1, <1>2, <1>7, <1>9, <2>1, KnowsStill DEF L!Assigned
  <2>2. CASE e = d
    BY <1>1, <1>2, <1>4, <1>5, <1>7, <2>2
       DEF Knows, CopyIsComplete, HandlerInv, WorkerInv, L!CommitsOf, L!Assigned
  <2> QED
    BY <2>1, <2>2
<1>10. ASSUME ~lOverlapped' PROVE d = lEpoch /\ Alone(d)'
  <2>1. d = lEpoch
    BY <1>1, <1>10, LineageAlone
  <2>2. Alone(d)
    BY <1>1, <1>10, <2>1 DEF LineageInv
  <2>3. Others(d)'
    BY <1>1, <1>7, <2>1, <2>2 DEF Alone, Others, L!Idle, L!NoWorker
  <2>4. lHandler[d].at \notin {"merge", "save"} /\ turned.at \notin {"merge", "save"}
    BY <1>1, <1>4, <2>2 DEF Alone, ScanAlone
  <2>5. ScanAlone(d)'
    BY <1>6, <1>7, <2>4 DEF ScanAlone
  <2>6. JudgesAlone(d)'
    BY <1>1, <1>3, <1>5, <1>7 DEF JudgesAlone, Ahead
  <2>7. LinkAlone(d)'
    BY <1>1, <1>4, <1>7, <2>2 DEF Alone, LinkAlone, LinkedYet, LinkedSoon
  <2>8. OneOfEach'
    BY <1>1, <2>2 DEF Alone, OneOfEach
  <2> QED
    BY <2>1, <2>3, <2>5, <2>6, <2>7, <2>8 DEF Alone
<1> QED
  BY <1>1, <1>8, <1>9, <1>10 DEF LineageInv, Knows

\* A worker that goes on has no more to judge than before.
GoesOn(d, next) ==
    /\ next.diffs = lWorker[d].diffs /\ next.todo \subseteq lWorker[d].todo
    /\ next.at \in {"answer", "update"} => next.change \in Ahead(d)

\* A step that only moves a worker on, or ends it, keeps everything as it was.
LEMMA WorkerMoves ==
    ASSUME LineageInv, NEW d \in L!Daemons, NEW next \in LWorker, lWorker[d].at # "none",
           lWorker' = [lWorker EXCEPT ![d] = next], lQueue' \in LQueue,
           next.at \in {"answer", "update"} => next.change \in L!Changes \ next.todo,
           next.at # "none" => GoesOn(d, next) /\ lQueue' = lQueue,
           lQueue' = lQueue \/ lQueue'.status = "none",
           UNCHANGED <<lParent, lInbox, lTasks, lEpoch, lHandler, lAgain, lEvents, lOverlapped>>
    PROVE  LineageInv'
<1>1. /\ lHandler \in [L!Daemons -> LHandler] /\ lWorker \in [L!Daemons -> LWorker]
      /\ \A e \in L!Daemons : Knows(e)
  BY DEF LineageInv, LTypes, Knows
<1>2. /\ lWorker' \in [L!Daemons -> LWorker] /\ lWorker'[d] = next
      /\ \A e \in L!Daemons \ {d} : lWorker'[e] = lWorker[e]
  BY <1>1
<1>3. LTypes' /\ TasksInv' /\ InboxIsComplete'
  BY <1>2 DEF LineageInv, LTypes, TasksInv, InboxIsComplete, L!CommitsOf
<1>4. ASSUME NEW e \in L!Daemons PROVE Knows(e)'
  <2>1. CASE e # d
    BY <1>1, <1>2, <1>4, <2>1, KnowsStill DEF L!Assigned
  <2>2. CASE e = d
    BY <1>1, <1>2, <2>2 DEF Knows, CopyIsComplete, HandlerInv, WorkerInv, L!CommitsOf, L!Assigned
  <2> QED
    BY <2>1, <2>2
<1>5. ASSUME ~lOverlapped' PROVE d = lEpoch /\ Alone(d)'
  <2>1. d = lEpoch /\ Alone(d)
    BY <1>5, LineageAlone
  <2>2. Others(d)' /\ LinkAlone(d)' /\ OneOfEach'
    BY <1>2, <2>1 DEF Alone, Others, LinkAlone, LinkedYet, LinkedSoon, OneOfEach, L!Idle, L!NoWorker
  <2>3. ScanAlone(d)'
    BY <1>2, <2>1 DEF Alone, ScanAlone
  <2>4. next.at # "none" => Ahead(d)' \subseteq Ahead(d)
    BY <1>2 DEF Ahead, GoesOn
  <2>5. JudgesAlone(d)'
    BY <1>2, <2>1, <2>4 DEF Alone, JudgesAlone, GoesOn
  <2> QED
    BY <2>1, <2>2, <2>3, <2>5 DEF Alone
<1> QED
  BY <1>3, <1>4, <1>5 DEF LineageInv, Knows

LEMMA WorkerKeeps ==
    ASSUME LineageInv, NEW d \in L!Daemons,
           L!WorkerAsks(d) \/ L!WorkerJudges(d) \/ L!WorkerFinishes(d) \/ L!WorkerRaises(d)
    PROVE  LineageInv'
<1> DEFINE w == lWorker[d]
<1>1. w \in LWorker /\ lQueue \in LQueue /\ WorkerInv(d)
  BY DEF LineageInv, LTypes
<1>2. UNCHANGED <<lParent, lInbox, lTasks, lEpoch, lHandler, lAgain, lEvents, lOverlapped>>
  BY DEF L!WorkerAsks, L!WorkerJudges, L!WorkerFinishes, L!WorkerRaises
<1>3. CASE L!WorkerAsks(d)
  <2>1. w.at = "batch" /\ lQueue' = lQueue
    BY <1>3 DEF L!WorkerAsks
  <2>2. CASE L!Work(d, L!NoWorker)
    BY <1>1, <1>2, <2>1, <2>2, LineageIdle, WorkerMoves DEF L!Work
  <2>3. CASE L!Work(d, [w EXCEPT !.at = "finish"])
    <3> DEFINE next == [w EXCEPT !.at = "finish"]
    <3>1. next \in LWorker /\ next.at = "finish" /\ next.todo = w.todo /\ next.diffs = w.diffs
      BY <1>1 DEF LWorker
    <3>2. lWorker' = [lWorker EXCEPT ![d] = next]
      BY <2>3 DEF L!Work
    <3> HIDE DEF next
    <3> QED
      BY <1>1, <1>2, <2>1, <3>1, <3>2, WorkerMoves DEF GoesOn
  <2>4. ASSUME NEW c \in w.todo, L!Work(d, [w EXCEPT !.at = "answer", !.change = c, !.todo = @ \ {c}])
        PROVE  LineageInv'
    <3> DEFINE next == [w EXCEPT !.at = "answer", !.change = c, !.todo = @ \ {c}]
    <3>1. c \in L!Changes /\ c \in 0..MaxChanges /\ c \in Ahead(d)
      BY <1>1, <2>4, ChangesAssumption DEF LWorker, L!Changes, Ahead
    <3>2. /\ next \in LWorker /\ next.at = "answer" /\ next.todo = w.todo \ {c}
          /\ next.diffs = w.diffs /\ next.change = c
      BY <1>1, <3>1 DEF LWorker
    <3>3. lWorker' = [lWorker EXCEPT ![d] = next]
      BY <2>4 DEF L!Work
    <3> HIDE DEF next
    <3> QED
      BY <1>1, <1>2, <2>1, <3>1, <3>2, <3>3, WorkerMoves DEF GoesOn
  <2> QED
    BY <1>3, <2>2, <2>3, <2>4 DEF L!WorkerAsks
<1>4. CASE L!WorkerJudges(d)
  <2>1. w.at = "answer" /\ lQueue' = lQueue
    BY <1>4 DEF L!WorkerJudges
  <2>2. CASE L!Work(d, L!NoWorker)
    BY <1>1, <1>2, <2>1, <2>2, LineageIdle, WorkerMoves DEF L!Work
  <2>3. ASSUME NEW judged \in {"assessed", "failed"},
               L!Work(d, [w EXCEPT !.at = "update", !.judged = judged])
        PROVE  LineageInv'
    <3> DEFINE next == [w EXCEPT !.at = "update", !.judged = judged]
    <3>1. /\ next \in LWorker /\ next.at = "update" /\ next.todo = w.todo
          /\ next.diffs = w.diffs /\ next.change = w.change
      BY <1>1 DEF LWorker
    <3>2. lWorker' = [lWorker EXCEPT ![d] = next]
      BY <2>3 DEF L!Work
    <3>3. w.change \in Ahead(d) /\ w.change \in L!Changes \ w.todo
      BY <1>1, <2>1 DEF WorkerInv, Ahead
    <3> HIDE DEF next
    <3> QED
      BY <1>1, <1>2, <2>1, <3>1, <3>2, <3>3, WorkerMoves DEF GoesOn
  <2> QED
    BY <1>4, <2>2, <2>3 DEF L!WorkerJudges
<1>5. CASE L!WorkerFinishes(d)
  <2>1. /\ w.at \in {"finish", "failed"} /\ lQueue' \in {lQueue, L!NoJob}
        /\ lWorker' = [lWorker EXCEPT ![d] = L!NoWorker]
    BY <1>5 DEF L!WorkerFinishes, L!Work
  <2> QED
    BY <1>1, <1>2, <2>1, LineageIdle, WorkerMoves
<1>6. CASE L!WorkerRaises(d)
  <2>1. w.at \in {"batch", "answer", "finish"} /\ lQueue' = lQueue
    BY <1>6 DEF L!WorkerRaises
  <2>2. CASE L!Work(d, L!NoWorker)
    BY <1>1, <1>2, <2>1, <2>2, LineageIdle, WorkerMoves DEF L!Work
  <2>3. CASE L!Work(d, [w EXCEPT !.at = "failed"])
    <3> DEFINE next == [w EXCEPT !.at = "failed"]
    <3>1. next \in LWorker /\ next.at = "failed" /\ next.todo = w.todo /\ next.diffs = w.diffs
      BY <1>1 DEF LWorker
    <3>2. lWorker' = [lWorker EXCEPT ![d] = next]
      BY <2>3 DEF L!Work
    <3> HIDE DEF next
    <3> QED
      BY <1>1, <1>2, <2>1, <3>1, <3>2, WorkerMoves DEF GoesOn
  <2> QED
    BY <1>6, <2>2, <2>3 DEF L!WorkerRaises
<1> QED
  BY <1>3, <1>4, <1>5, <1>6

LEMMA WorkerUpdatesKeeps ==
    ASSUME LineageInv, NEW d \in L!Daemons, L!WorkerUpdates(d)
    PROVE  LineageInv'
<1> DEFINE w == lWorker[d]
           c == w.change
           seen == c \in w.diffs
           new == [lInbox.candidates[c] EXCEPT !.judged = w.judged, !.seen = seen]
           failed == [w EXCEPT !.at = "failed"]
           next == [w EXCEPT !.at = "batch"]
<1>1. /\ w.at = "update" /\ w \in LWorker /\ WorkerInv(d) /\ lQueue \in LQueue
      /\ UNCHANGED <<lParent, lQueue, lTasks, lEpoch, lHandler, lAgain, lEvents, lOverlapped>>
  BY DEF LineageInv, LTypes, L!WorkerUpdates
<1>2. /\ lHandler \in [L!Daemons -> LHandler] /\ lWorker \in [L!Daemons -> LWorker]
      /\ lInbox \in Inbox0 /\ lTasks \in Seq(LTask) /\ \A e \in L!Daemons : Knows(e)
  BY DEF LineageInv, LTypes, Knows
<1>3. c \in L!Changes \ w.todo /\ w.judged \in {"pending", "failed", "assessed"} /\ seen \in BOOLEAN
  BY <1>1 DEF WorkerInv, LWorker
<1>4. /\ next \in LWorker /\ next.at = "batch" /\ next.todo = w.todo /\ next.diffs = w.diffs
      /\ failed \in LWorker /\ failed.at = "failed" /\ failed.todo = w.todo /\ failed.diffs = w.diffs
  BY <1>1 DEF LWorker
<1>5. CASE ~L!Known(lInbox.candidates, c)
  <2>1. lInbox' = lInbox /\ lWorker' = [lWorker EXCEPT ![d] = failed]
    BY <1>5 DEF L!WorkerUpdates, L!Work
  <2> HIDE DEF failed, next
  <2> QED
    BY <1>1, <1>2, <1>4, <2>1, WorkerMoves DEF GoesOn
<1>6. CASE L!Known(lInbox.candidates, c)
  <2>1. /\ lInbox' = [lInbox EXCEPT !.candidates = [lInbox.candidates EXCEPT ![c] = new]]
        /\ lWorker' = [lWorker EXCEPT ![d] = next]
    <3>1. /\ lInbox' = [lInbox EXCEPT !.candidates[c].judged = w.judged, !.candidates[c].seen = seen]
          /\ lWorker' = [lWorker EXCEPT ![d] = next]
      BY <1>6 DEF L!WorkerUpdates, L!Work
    <3> HIDE DEF next, seen
    <3> QED
      BY <1>2, <1>3, <3>1 DEF Inbox0, Known0
  <2>2. /\ new \in Known0 /\ new.status = lInbox.candidates[c].status /\ new.judged = w.judged
        /\ new.seen = seen /\ new.diff = lInbox.candidates[c].diff
    <3>1. lInbox.candidates[c] \in Known0
      BY <1>2, <1>3 DEF Inbox0
    <3> HIDE DEF seen
    <3> QED
      BY <1>3, <3>1 DEF Known0
  <2> HIDE DEF new, next, failed
  <2>3. /\ lInbox' \in Inbox0 /\ lInbox'.cursor = lInbox.cursor /\ lInbox'.candidates[c] = new
        /\ \A m \in L!Changes \ {c} : lInbox'.candidates[m] = lInbox.candidates[m]
        /\ \A m \in L!Changes : lInbox'.candidates[m].status = lInbox.candidates[m].status
    BY <1>2, <1>3, <2>1, <2>2 DEF Inbox0
  <2>4. /\ lWorker' \in [L!Daemons -> LWorker] /\ lWorker'[d] = next
        /\ \A e \in L!Daemons \ {d} : lWorker'[e] = lWorker[e]
    BY <1>2, <1>4, <2>1
  <2>5. LTypes' /\ TasksInv' /\ InboxIsComplete'
    BY <1>1, <2>3, <2>4 DEF LineageInv, LTypes, TasksInv, InboxIsComplete, L!CommitsOf
  <2>6. ASSUME NEW e \in L!Daemons PROVE Knows(e)'
    <3>1. CASE e # d
      BY <1>1, <1>2, <2>4, <2>6, <3>1, KnowsStill DEF L!Assigned
    <3>2. CASE e = d
      BY <1>1, <1>2, <1>4, <2>4, <3>2
         DEF Knows, CopyIsComplete, HandlerInv, WorkerInv, L!CommitsOf, L!Assigned
    <3> QED
      BY <3>1, <3>2
  <2>7. ASSUME ~lOverlapped' PROVE d = lEpoch /\ Alone(d)'
    <3>1. d = lEpoch /\ Alone(d)
      BY <1>1, <2>7, LineageAlone
    <3>2. /\ c \in Ahead(d) /\ seen = lInbox.candidates[c].diff
          /\ lInbox.candidates[c].judged # "assessed"
      <4>1. c \in Ahead(d)
        BY <1>1, <1>3 DEF Ahead
      <4>2. lInbox.candidates[c].diff \in BOOLEAN
        BY <1>2, <1>3 DEF Inbox0, Known0
      <4> QED
        BY <1>1, <3>1, <4>1, <4>2 DEF Alone, JudgesAlone
    <3>3. Others(d)'
      BY <1>1, <2>4, <3>1 DEF Alone, Others, L!Idle, L!NoWorker
    <3>4. ScanAlone(d)'
      BY <1>1, <1>4, <2>4, <3>1 DEF Alone, ScanAlone
    <3>5. JudgesAlone(d)'
      <4>1. Ahead(d)' = w.todo
        BY <1>1, <1>4, <2>4 DEF Ahead, LWorker
      <4>2. w.todo \subseteq Ahead(d) /\ c \notin w.todo
        BY <1>1, <1>3 DEF Ahead, LWorker
      <4>3. lWorker'[d].at # "none" => lWorker[d].at # "none" /\ lWorker'[d].diffs = lWorker[d].diffs
        BY <1>1, <1>4, <2>4 DEF LWorker
      <4>4. \A m \in w.todo : lInbox'.candidates[m] = lInbox.candidates[m]
        BY <1>4, <2>3, <4>2 DEF LWorker
      <4> QED
        BY <3>1, <4>1, <4>2, <4>3, <4>4 DEF Alone, JudgesAlone
    <3>6. ASSUME NEW t \in DOMAIN lTasks PROVE LinkedYet(t)' \/ LinkedSoon(d, t)'
      <4>0. lTasks[t].change \in L!Changes
        BY <1>2, <3>6, LineageTask
      <4>1. CASE LinkedYet(t)
        BY <1>1, <2>3, <4>0, <4>1 DEF LinkedYet
      <4>2. CASE LinkedSoon(d, t)
        <5>1. lTasks[t].change # c
          BY <3>2, <4>2 DEF LinkedSoon
        <5> QED
          BY <1>1, <2>3, <4>0, <4>2, <5>1 DEF LinkedSoon
      <4> QED
        BY <3>1, <3>6, <4>1, <4>2 DEF Alone, LinkAlone
    <3>7. LinkAlone(d)'
      <4>1. lHandler[d].at = "link" => lHandler[d].change \in L!Changes
        BY <1>2 DEF Knows, HandlerInv
      <4> QED
        BY <1>1, <2>3, <3>1, <3>6, <4>1 DEF Alone, LinkAlone
    <3>8. OneOfEach'
      BY <1>1, <2>2, <2>3, <3>1, <3>2 DEF Alone, OneOfEach
    <3> QED
      BY <3>1, <3>3, <3>4, <3>5, <3>7, <3>8 DEF Alone
  <2> QED
    BY <1>1, <2>5, <2>6, <2>7 DEF LineageInv, Knows
<1> QED
  BY <1>5, <1>6

LEMMA LineageKeeps == ASSUME LineageInv, L!Next PROVE LineageInv'
  BY LandKeeps, TaskLandsKeeps, NewDaemonKeeps, ReplacedEndsKeeps, InheritKeeps, IgnoreKeeps,
     ScanStartsKeeps, ScanMergesKeeps, ScanSavesKeeps, EnqueueKeeps, AdoptKeeps, LinkKeeps,
     ClaimKeeps, WorkerKeeps, WorkerUpdatesKeeps
     DEF L!Next, L!HandlerStep, L!WorkerStep, L!Environment

-----------------------------------------------------------------------------
(* What follows for the changes.                                           *)

LEMMA StatusesAre == {L!Statuses[i] : i \in DOMAIN L!Statuses}
                       = {"unknown", "pending", "ignored", "linked", "adopted"}
<1>1. DOMAIN L!Statuses = 1..5
  BY DEF L!Statuses
<1>2. /\ L!Statuses[1] = "unknown" /\ L!Statuses[2] = "pending" /\ L!Statuses[3] = "ignored"
      /\ L!Statuses[4] = "linked" /\ L!Statuses[5] = "adopted"
  BY DEF L!Statuses
<1>3. \A i \in 1..5 : i = 1 \/ i = 2 \/ i = 3 \/ i = 4 \/ i = 5
  OBVIOUS
<1>4. 1 \in 1..5 /\ 2 \in 1..5 /\ 3 \in 1..5 /\ 4 \in 1..5 /\ 5 \in 1..5
  OBVIOUS
<1> QED
  BY <1>1, <1>2, <1>3, <1>4

LEMMA LineageBegins == ASSUME L!Init PROVE LineageInv
<1>1. /\ lParent = [head |-> 0, merges |-> {}]
      /\ lInbox = [cursor |-> 0, candidates |-> [c \in L!Changes |-> L!Unseen]]
      /\ lQueue = L!NoJob /\ lTasks = <<>> /\ lEpoch = 1
      /\ lHandler = [d \in L!Daemons |-> L!Idle] /\ lWorker = [d \in L!Daemons |-> L!NoWorker]
      /\ lAgain = {} /\ lEvents = 0 /\ lOverlapped = FALSE
  BY DEF L!Init
<1>2. L!Unseen \in Known0
  BY ChangesAssumption DEF L!Unseen, Known0
<1>3. lInbox \in Inbox0 /\ \A c \in L!Changes : lInbox.candidates[c].judged # "assessed"
  BY <1>1, <1>2, ChangesAssumption DEF Inbox0, L!Unseen
<1>4. LTypes
  <2>1. lEpoch \in L!Daemons /\ lEvents \in 0..MaxEvents
    BY <1>1, ChangesAssumption DEF L!Daemons
  <2>2. lParent \in [head : 0..MaxChanges, merges : SUBSET L!Changes]
    BY <1>1, ChangesAssumption
  <2>3. /\ lTasks \in Seq(LTask) /\ lAgain \subseteq L!Changes \X (1..MaxEvents)
        /\ lOverlapped \in BOOLEAN
    <3>1. <<>> \in Seq(LTask) /\ {} \subseteq L!Changes \X (1..MaxEvents) /\ FALSE \in BOOLEAN
      OBVIOUS
    <3> QED
      BY <1>1, <3>1
  <2>4. lQueue \in LQueue /\ lHandler \in [L!Daemons -> LHandler] /\ lWorker \in [L!Daemons -> LWorker]
    BY <1>1, LineageIdle
  <2> QED
    BY <1>3, <2>1, <2>2, <2>3, <2>4 DEF LTypes
<1>5. TasksInv /\ InboxIsComplete
  BY <1>1 DEF TasksInv, InboxIsComplete
<1>6. ASSUME NEW d \in L!Daemons PROVE CopyIsComplete(d) /\ HandlerInv(d) /\ WorkerInv(d)
  <2>1. lHandler[d] = L!Idle /\ lWorker[d] = L!NoWorker /\ lParent.head = 0
    BY <1>1, <1>6
  <2>2. CopyIsComplete(d)
    BY <2>1, LineageIdle DEF CopyIsComplete
  <2> QED
    BY <2>1, <2>2, LineageIdle DEF HandlerInv, WorkerInv
<1>7. ASSUME NEW d \in L!Daemons PROVE Alone(d)
  <2>1. lHandler[d] = L!Idle /\ lWorker[d] = L!NoWorker /\ DOMAIN lTasks = {}
    BY <1>1, <1>7
  <2>2. Others(d) /\ ScanAlone(d) /\ JudgesAlone(d)
    BY <1>1, <2>1, LineageIdle DEF Others, ScanAlone, JudgesAlone
  <2>3. LinkAlone(d) /\ OneOfEach
    BY <1>1, <1>3, <2>1, LineageIdle DEF LinkAlone, OneOfEach
  <2> QED
    BY <2>2, <2>3 DEF Alone
<1> QED
  BY <1>4, <1>5, <1>6, <1>7 DEF LineageInv

LEMMA LineageStays == ASSUME LineageInv, UNCHANGED lineage PROVE LineageInv'
<1>1. UNCHANGED <<lParent, lInbox, lQueue, lTasks, lEpoch, lHandler, lWorker, lAgain, lEvents,
                  lOverlapped>>
  BY DEF lineage
<1>2. LTypes' /\ TasksInv' /\ InboxIsComplete'
  BY <1>1 DEF LineageInv, LTypes, TasksInv, InboxIsComplete, L!CommitsOf
<1>3. \A d \in L!Daemons : CopyIsComplete(d)' /\ HandlerInv(d)' /\ WorkerInv(d)'
  BY <1>1 DEF LineageInv, CopyIsComplete, HandlerInv, WorkerInv, L!CommitsOf, L!Assigned
<1>4. \A d \in L!Daemons : Alone(d) => Alone(d)'
  BY <1>1 DEF Alone, Others, ScanAlone, JudgesAlone, Ahead, LinkAlone, LinkedYet, LinkedSoon,
     OneOfEach, L!Idle, L!NoWorker
<1> QED
  BY <1>1, <1>2, <1>3, <1>4 DEF LineageInv

LEMMA LineageIsSound ==
    ASSUME LineageInv, faults \in 0..MaxFaults
    PROVE  L!TypeOK /\ L!NothingIsPassedOver /\ L!OneTaskPerChange /\ L!JudgedAsShown
<1>1. L!Inbox = Inbox0
  BY StatusesAre DEF L!Inbox, L!Candidate, Inbox0, Known0
<1>2. L!TypeOK
  BY <1>1 DEF L!TypeOK, LineageInv, LTypes, LQueue, LTask, LHandler, LWorker
<1>3. L!NothingIsPassedOver
  BY DEF LineageInv, InboxIsComplete, L!NothingIsPassedOver, L!Known
<1>4. ASSUME ~lOverlapped PROVE OneOfEach
  BY <1>4 DEF LineageInv, LTypes, Alone
<1>5. L!OneTaskPerChange
  <2>1. SUFFICES ASSUME ~lOverlapped, NEW c \in L!Changes
                 PROVE  Cardinality({t \in DOMAIN lTasks : lTasks[t].change = c}) <= 1
    BY DEF L!OneTaskPerChange, L!Cardinality, Cardinality
  <2> DEFINE S == {t \in DOMAIN lTasks : lTasks[t].change = c}
  <2>2. \A t, u \in S : t = u
    BY <1>4, <2>1 DEF OneOfEach
  <2> HIDE DEF S
  <2>3. S = {} \/ \E t : S = {t}
    <3>1. ASSUME NEW t \in S PROVE S = {t}
      <4>1. \A u : u \in S <=> u \in {t}
        BY <2>2, <3>1
      <4> QED
        BY <4>1
    <3> QED
      BY <3>1
  <2>4. Cardinality({}) = 0 /\ \A t : Cardinality({t}) = 1
    BY FS_EmptySet, FS_Singleton
  <2>5. Cardinality(S) \in {0, 1}
    BY <2>3, <2>4
  <2> QED
    BY <2>5 DEF S
<1>6. L!JudgedAsShown
  BY <1>4 DEF OneOfEach, L!JudgedAsShown
<1> QED
  BY <1>2, <1>3, <1>5, <1>6

LEMMA LineageGoesOn == LineageInv /\ [MCNext]_allVars => LineageInv'
<1>1. CASE L!Next /\ LineageInv
  BY <1>1, LineageKeeps
<1>2. CASE UNCHANGED lineage /\ LineageInv
  BY <1>2, LineageStays
<1> QED
  BY <1>1, <1>2 DEF MCNext, allVars, self, InReviews, InLineage, InEvolution, InCuration,
     InLearning, InMemory, InMigration, InPrivateState, InEnvironments, InQuotaWarnings,
     InOutbound, InSlackUpload, InSlackIntake

\* No change of the parent is passed over by the cursor; where no replaced daemon went on,
\* each has one adaptation task at most, however often its command comes again, and is shown
\* as judged by the content that the judgement was made from (refresh_lineage_inbox,
\* _adopt_lineage_candidate, run_lineage_assessment).
THEOREM ChangesStayAccountedFor == MCSpec => []ChangesAreAccountedFor
<1> DEFINE Inv == LineageInv /\ (part = "lineage" => faults \in 0..MaxFaults)
<1>1. MCInit => Inv
  <2>1. L!Init => faults = MaxFaults
    BY DEF L!Init
  <2> QED
    BY <2>1, LineageBegins, ChangesAssumption DEF MCInit
<1>2. LineageInv /\ [MCNext]_allVars => LineageInv'
  BY LineageGoesOn
<1>3. (part = "lineage" => faults \in 0..MaxFaults) /\ [MCNext]_allVars
        => (part = "lineage" => faults \in 0..MaxFaults)'
  <2>1. ASSUME L!Next, faults \in 0..MaxFaults PROVE faults' \in 0..MaxFaults
    <3>1. faults' = faults \/ (faults > 0 /\ faults' = faults - 1)
      BY <2>1, ZenonT(60) DEF L!Next, L!HandlerStep, L!WorkerStep, L!Environment, L!Fault, L!ScanStarts,
         L!ScanMerges, L!ScanSaves, L!EnqueueAssessment, L!Adopt, L!Link, L!Claim, L!WorkerAsks,
         L!WorkerJudges, L!WorkerUpdates, L!WorkerFinishes, L!WorkerRaises, L!Land, L!TaskLands,
         L!NewDaemon, L!ReplacedEnds, L!InheritCommand, L!IgnoreCandidate
    <3> QED
      BY <2>1, <3>1, ChangesAssumption
  <2>2. [MCNext]_allVars => \/ part = "lineage" /\ L!Next /\ UNCHANGED part
                            \/ part # "lineage" /\ UNCHANGED part
                            \/ UNCHANGED <<part, faults>>
    BY DEF MCNext, allVars, InReviews, InLineage, InEvolution, InCuration,
       InLearning, InMemory, InMigration, InPrivateState, InEnvironments, InQuotaWarnings,
       InOutbound, InSlackUpload, InSlackIntake
  <2> QED
    BY <2>1, <2>2
<1>4. Inv => ChangesAreAccountedFor
  BY LineageIsSound DEF ChangesAreAccountedFor
<1> QED
  BY <1>1, <1>2, <1>3, <1>4, PTL DEF MCSpec

-----------------------------------------------------------------------------
(* Decisions and authority.                                                *)

\* What a decision of the owner outranks.
LEMMA RanksAre == /\ L!Rank("unknown") = 1 /\ L!Rank("pending") = 2 /\ L!Rank("ignored") = 3
                  /\ L!Rank("linked") = 4 /\ L!Rank("adopted") = 5
<1>1. DOMAIN L!Statuses = 1..5
  BY DEF L!Statuses
<1>2. /\ L!Statuses[1] = "unknown" /\ L!Statuses[2] = "pending" /\ L!Statuses[3] = "ignored"
      /\ L!Statuses[4] = "linked" /\ L!Statuses[5] = "adopted"
  BY DEF L!Statuses
<1>3. \A i \in 1..5 : i = 1 \/ i = 2 \/ i = 3 \/ i = 4 \/ i = 5
  OBVIOUS
<1>4. ASSUME NEW j \in 1..5 PROVE \A i \in DOMAIN L!Statuses : L!Statuses[i] = L!Statuses[j] => i = j
  BY <1>1, <1>2, <1>3, <1>4
<1>5. ASSUME NEW j \in 1..5 PROVE L!Rank(L!Statuses[j]) = j
  BY <1>1, <1>4, <1>5 DEF L!Rank
<1>6. 1 \in 1..5 /\ 2 \in 1..5 /\ 3 \in 1..5 /\ 4 \in 1..5 /\ 5 \in 1..5
  OBVIOUS
<1> QED
  BY <1>2, <1>5, <1>6

\* The steps that change a status, where no replaced daemon went on.
Decided(old, new) ==
    \/ new = old
    \/ old = "unknown" /\ new = "pending"
    \/ old = "pending" /\ new = "ignored"
    \/ old \in {"pending", "ignored"} /\ new = "linked"
    \/ old = "linked" /\ new = "adopted"

LEMMA StatusesAdvance ==
    ASSUME LineageInv, L!Next, ~lOverlapped, NEW c \in L!Changes
    PROVE  Decided(lInbox.candidates[c].status, lInbox'.candidates[c].status)
<1>1. lInbox \in Inbox0 /\ lEpoch \in L!Daemons /\ \A e \in L!Daemons : HandlerInv(e)
  BY DEF LineageInv, LTypes
<1>2. CASE UNCHANGED lInbox
  BY <1>2 DEF Decided
<1>3. ASSUME NEW d \in L!Daemons, L!InheritCommand(d)
      PROVE  Decided(lInbox.candidates[c].status, lInbox'.candidates[c].status)
  <2>1. PICK readable : L!Reconcile(readable)
    BY <1>3 DEF L!InheritCommand
  <2> QED
    BY <2>1, ReconcileIs DEF Decided
<1>4. ASSUME NEW d \in L!Daemons, NEW i \in L!Changes, L!IgnoreCandidate(d, i)
      PROVE  Decided(lInbox.candidates[c].status, lInbox'.candidates[c].status)
  <2>1. lInbox.candidates[i].status = "pending"
    BY <1>4 DEF L!IgnoreCandidate, L!Pending
  <2>2. lInbox' = [lInbox EXCEPT !.candidates[i]["status"] = "ignored"]
    BY <1>4 DEF L!IgnoreCandidate, L!Set
  <2>3. lInbox'.candidates[c].status = IF c = i THEN "ignored" ELSE lInbox.candidates[c].status
    BY <1>1, <1>4, <2>2 DEF Inbox0, Known0
  <2> QED
    BY <2>1, <2>3 DEF Decided
<1>5. ASSUME NEW d \in L!Daemons, L!ScanSaves(d)
      PROVE  Decided(lInbox.candidates[c].status, lInbox'.candidates[c].status)
  <2>1. lHandler[d].at = "save" /\ lInbox' = lHandler[d].copy
    BY <1>5 DEF L!ScanSaves
  <2>2. ScanAlone(d)
    BY <1>5, <2>1, LineageAlone DEF Alone
  <2> QED
    BY <2>1, <2>2 DEF ScanAlone, Follows, Decided
<1>6. ASSUME NEW d \in L!Daemons, L!Link(d)
      PROVE  Decided(lInbox.candidates[c].status, lInbox'.candidates[c].status)
  <2> DEFINE m == lHandler[d].change
             t0 == L!TaskOf(lHandler[d].event)
             linked == [lInbox.candidates[m] EXCEPT !.status = "linked", !.task = t0]
  <2>1. lHandler[d].at = "link"
    BY <1>6 DEF L!Link
  <2>2. LinkAlone(d)
    BY <1>6, <2>1, LineageAlone DEF Alone
  <2>3. m \in L!Changes /\ lInbox.candidates[m].status \in {"pending", "ignored"}
    BY <1>1, <1>6, <2>1, <2>2 DEF HandlerInv, LinkAlone
  <2>4. lInbox.candidates[m] \in Known0
    BY <1>1, <2>3 DEF Inbox0
  <2>5. lInbox' = [lInbox EXCEPT !.candidates[m].status = "linked", !.candidates[m].task = t0]
    BY <1>6, <2>3 DEF L!Link, L!Known
  <2>6. lInbox' = [lInbox EXCEPT !.candidates = [lInbox.candidates EXCEPT ![m] = linked]]
    BY <1>1, <2>3, <2>5 DEF Inbox0, Known0
  <2> HIDE DEF t0
  <2>7. linked.status = "linked"
    BY <2>4 DEF Known0
  <2> HIDE DEF linked
  <2>8. lInbox'.candidates[c] = IF c = m THEN linked ELSE lInbox.candidates[c]
    BY <1>1, <2>3, <2>6 DEF Inbox0
  <2> QED
    BY <2>3, <2>7, <2>8 DEF Decided
<1>7. ASSUME NEW d \in L!Daemons, L!WorkerUpdates(d)
      PROVE  Decided(lInbox.candidates[c].status, lInbox'.candidates[c].status)
  <2> DEFINE w == lWorker[d]
             m == w.change
             new == [lInbox.candidates[m] EXCEPT !.judged = w.judged, !.seen = m \in w.diffs]
  <2>1. CASE UNCHANGED lInbox
    BY <2>1 DEF Decided
  <2>2. CASE L!Known(lInbox.candidates, m)
    <3>1. m \in L!Changes
      BY <1>7 DEF LineageInv, WorkerInv, L!WorkerUpdates
    <3>2. lInbox' = [lInbox EXCEPT !.candidates[m].judged = w.judged, !.candidates[m].seen = m \in w.diffs]
      BY <1>7, <2>2 DEF L!WorkerUpdates
    <3>3. lInbox' = [lInbox EXCEPT !.candidates = [lInbox.candidates EXCEPT ![m] = new]]
      BY <1>1, <3>1, <3>2 DEF Inbox0, Known0
    <3>4. new.status = lInbox.candidates[m].status
      <4>1. lInbox.candidates[m] \in Known0
        BY <1>1, <3>1 DEF Inbox0
      <4> QED
        BY <4>1 DEF Known0
    <3> HIDE DEF new
    <3>5. lInbox'.candidates[c] = IF c = m THEN new ELSE lInbox.candidates[c]
      BY <1>1, <3>1, <3>3 DEF Inbox0
    <3> QED
      BY <3>4, <3>5 DEF Decided
  <2> QED
    BY <1>7, <2>1, <2>2 DEF L!WorkerUpdates
<1>8. ASSUME NEW d \in L!Daemons,
             \/ L!ScanStarts(d) \/ L!ScanMerges(d) \/ L!EnqueueAssessment(d) \/ L!Adopt(d)
             \/ L!Claim(d) \/ L!WorkerAsks(d) \/ L!WorkerJudges(d) \/ L!WorkerFinishes(d)
             \/ L!WorkerRaises(d) \/ L!ReplacedEnds(d)
      PROVE  UNCHANGED lInbox
  BY <1>8 DEF L!ScanStarts, L!ScanMerges, L!EnqueueAssessment, L!Adopt, L!Claim, L!WorkerAsks,
     L!WorkerJudges, L!WorkerFinishes, L!WorkerRaises, L!ReplacedEnds
<1>9. ASSUME \/ \E pullRequest \in BOOLEAN : L!Land(pullRequest)
             \/ \E t \in DOMAIN lTasks : L!TaskLands(t)
             \/ \E survives \in BOOLEAN : L!NewDaemon(survives)
      PROVE  UNCHANGED lInbox
  BY <1>9 DEF L!Land, L!TaskLands, L!NewDaemon
<1> QED
  BY <1>2, <1>3, <1>4, <1>5, <1>6, <1>7, <1>8, <1>9
     DEF L!Next, L!HandlerStep, L!WorkerStep, L!Environment

LEMMA DecidedRanks ==
    ASSUME NEW old, NEW new, Decided(old, new),
           old \in {"unknown", "pending", "ignored", "linked", "adopted"}
    PROVE  L!Rank(new) >= L!Rank(old)
  BY RanksAre DEF Decided

\* Where no daemon is started during a command, and no bundle is imported that a failed
\* export left in its place, no decision of the owner is undone by what runs beside it, on a
\* change of the parent (other than by a replaced daemon) or on what was learned, and the
\* authority of a host moves only to a generation that no host had before
\* (refresh_lineage_inbox, decide_learning_candidate, begin_daemon_epoch).
THEOREM NothingEverGoesBack ==
    ASSUME Overlap = FALSE, Leftovers = FALSE
    PROVE  MCSpec => NothingGoesBack
<1> DEFINE Inv == LineageInv /\ LearningInv /\ MigrationInv
<1>1. MCInit => Inv
  BY LineageBegins, LearningBegins, MigrationBegins DEF MCInit
<1>2. LineageInv /\ [MCNext]_allVars => LineageInv'
  BY LineageGoesOn
<1>3. LearningInv /\ [MCNext]_allVars => LearningInv'
  BY LearningGoesOn
<1>4. MigrationInv /\ [MCNext]_allVars => MigrationInv'
  BY MigrationGoesOn
<1>5. Inv /\ [MCNext]_allVars
        => [\A c \in L!Changes :
               L!Rank(lInbox'.candidates[c].status) >= L!Rank(lInbox.candidates[c].status)
               \/ lOverlapped]_(L!vars)
  <2>1. ASSUME LineageInv, L!Next, ~lOverlapped, NEW c \in L!Changes
        PROVE  L!Rank(lInbox'.candidates[c].status) >= L!Rank(lInbox.candidates[c].status)
    <3>1. Decided(lInbox.candidates[c].status, lInbox'.candidates[c].status)
      BY <2>1, StatusesAdvance
    <3>2. lInbox.candidates[c].status \in {"unknown", "pending", "ignored", "linked", "adopted"}
      BY <2>1 DEF LineageInv, LTypes, Inbox0, Known0
    <3> QED
      BY <3>1, <3>2, DecidedRanks
  <2>2. ASSUME LineageInv, UNCHANGED lInbox, NEW c \in L!Changes
        PROVE  L!Rank(lInbox'.candidates[c].status) >= L!Rank(lInbox.candidates[c].status)
    <3>1. lInbox.candidates[c].status \in {"unknown", "pending", "ignored", "linked", "adopted"}
      BY <2>2 DEF LineageInv, LTypes, Inbox0, Known0
    <3> QED
      BY <2>2, <3>1, DecidedRanks DEF Decided
  <2>3. [MCNext]_allVars => L!Next \/ UNCHANGED lInbox
    BY DEF MCNext, allVars, self, lineage, InReviews, InLineage, InEvolution, InCuration,
       InLearning, InMemory, InMigration, InPrivateState, InEnvironments, InQuotaWarnings,
       InOutbound, InSlackUpload, InSlackIntake
  <2> QED
    BY <2>1, <2>2, <2>3
<1>6. Inv /\ [MCNext]_allVars
        => [\A s \in DOMAIN nCandidates :
               nCandidates[s] # "candidate" => nCandidates'[s] = nCandidates[s]]_(N!vars)
  <2>1. CASE N!Next
    BY <2>1, LearningDecides
  <2>2. CASE UNCHANGED nCandidates
    BY <2>2
  <2> QED
    BY <2>1, <2>2 DEF MCNext, allVars, knowledge, learning, InReviews, InLineage, InEvolution,
       InCuration, InLearning, InMemory, InMigration, InPrivateState, InEnvironments,
       InQuotaWarnings, InOutbound, InSlackUpload, InSlackIntake
<1>7. Inv /\ [MCNext]_allVars
        => [\/ gGranted' # gGranted
            \/ \A h \in Hosts : gEpoch'[h].generation = gEpoch[h].generation]_(G!vars)
  <2>1. CASE G!Next /\ MigrationInv
    BY <2>1, MigrationAdvances
  <2>2. CASE UNCHANGED gEpoch
    BY <2>2
  <2> QED
    BY <2>1, <2>2 DEF MCNext, allVars, installation, migration, InReviews, InLineage, InEvolution,
       InCuration, InLearning, InMemory, InMigration, InPrivateState, InEnvironments,
       InQuotaWarnings, InOutbound, InSlackUpload, InSlackIntake
<1>8. MCSpec => L!DecisionsStand
  BY <1>1, <1>2, <1>3, <1>4, <1>5, PTL DEF MCSpec, L!DecisionsStand
<1>9. MCSpec => N!LearningKeepsDecisions
  BY <1>1, <1>2, <1>3, <1>4, <1>6, PTL DEF MCSpec, N!LearningKeepsDecisions
<1>10. MCSpec => G!AuthorityAdvances
  BY <1>1, <1>2, <1>3, <1>4, <1>7, PTL DEF MCSpec, G!AuthorityAdvances
<1> QED
  BY <1>8, <1>9, <1>10 DEF NothingGoesBack
=============================================================================
