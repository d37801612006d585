------------------------------- MODULE MCAgent -------------------------------
(***************************************************************************)
(* What the agent makes of its work and of itself, where it keeps it, and  *)
(* what it hands out: reviews, inheritance from the parent, evolution and  *)
(* its curation, learning and memory; migration, upgrades of the private   *)
(* state, validation environments; warnings, attachments and the messages  *)
(* of Slack.  The components share no state; a behaviour runs one (part)   *)
(* and the others keep their first state.                                  *)
(***************************************************************************)
EXTENDS Naturals, Sequences, FiniteSets

CONSTANTS Parts,     \* the components that are checked
          MaxFaults, MaxEvents, MaxCommands, MaxPushes, MaxAttempts,  \* of several components
          Pulls,                                                      \* Reviews
          MaxChanges, MaxOverlap, ScanLimit, MaxDaemons,              \* Lineage
          Turns, Studied, BatchSize, Observations, Titles, MaxProposals, MaxApprovals,
          MaxClaims, MaxSettings,                                     \* Evolution
          PoolSize, EndedTasks, CitedReviews, PoolLimit, EvidenceLimit, MaxCurations,
          MaxRegressions, MaxDecisions,                               \* Curation
          Contents, LearningTasks,                                          \* Learning
          Words, Savers, MemoryLength, MaxDays, MaxReplies, MaxForgets, \* Memory
          StateFaults,                                                \* Migration, PrivateState
          Hosts, FirstHost, Overlap, Leftovers, MaxVersion, MaxStarts, MaxBundles, \* Migration
          Files, MaxWrites,                                           \* PrivateState
          Doctors, Starts, MaxDamages,                                \* Environments
          MaxTime, Length, Jitter, MaxMoves,                          \* QuotaWarnings
          Attachments, Limit, MaxReplyRuns, UploadFaults,                \* Outbound, SlackUpload
          Messages, Ignored, Listeners, Keep, MaxRedeliveries         \* SlackIntake

\* Reviews have positive numbers; some daemon runs, and what is counted is bounded; a
\* published file says something; the memory's prompt has a budget, and there are finitely
\* many things to remember.
ASSUME PullsAssumption == Pulls \subseteq Nat \ {0} /\ MaxPushes \in Nat
ASSUME ChangesAssumption ==
    /\ MaxChanges \in Nat /\ MaxOverlap \in 0..MaxChanges /\ MaxEvents \in Nat
    /\ MaxDaemons \in Nat \ {0} /\ MaxFaults \in Nat
ASSUME ContentsAssumption == Contents # {} /\ "empty" \notin Contents
ASSUME WordsAssumption == IsFiniteSet(Words) /\ MemoryLength \in Nat /\ MaxDays \in Nat \ {0}
\* The state is on one of the hosts at first; 0 is no process; what is counted is bounded.
ASSUME HostsAssumption ==
    /\ FirstHost \in Hosts /\ MaxVersion \in Nat \ {0}
    /\ MaxStarts \in Nat /\ MaxBundles \in Nat /\ StateFaults \in Nat
ASSUME WritesAssumption == StateFaults \in Nat /\ MaxWrites \in Nat
ASSUME ProcessesAssumption == 0 \notin Doctors \cup Starts
ASSUME DamagesAssumption == MaxFaults \in Nat /\ MaxDamages \in Nat
\* A quota window is longer than a reset time that is reported may be off, and that is no
\* more than the code tolerates.
ASSUME QuotaAssumption ==
    MaxTime \in Nat /\ Jitter \in {0, 1} /\ Length \in Nat /\ Length > 1 + Jitter
\* Inputs are finitely many, and there is something to call a candidate.
ASSUME InputsAssumption ==
    IsFiniteSet(Turns \cup Studied) /\ Titles # {} /\ MaxApprovals \in Nat /\ MaxClaims \in Nat
\* The pool of candidates to curate, and what of it is shown.
ASSUME PoolAssumption == PoolSize \in Nat /\ PoolLimit \in Nat
\* There are files to attach, and messages; 0 is none of them.
ASSUME AttachmentsAssumption ==
    /\ Attachments # {} /\ 0 \notin Attachments
    /\ MaxReplyRuns \in Nat /\ MaxAttempts \in Nat \ {0} /\ UploadFaults \in Nat
ASSUME MessagesAssumption == IsFiniteSet(Messages) /\ 0 \notin Messages /\ Keep \in Nat

VARIABLES part, faults,
          rReviews, rMerged, rVetted, rCommand, rAdopted, rRequest, rTask, rClosed, rCommands,
          lParent, lInbox, lQueue, lTasks, lEpoch, lHandler, lWorker, lAgain, lEvents,
          lOverlapped,
          eLatest, eSeen, eStudied, eEvidence, eCandidates, eProposals, eTasks, eState, eJob,
          eAgain, eApprovals,
          cCandidate, cReview, cEnds, cPromoted, cTurn, cCurations,
          nPublished, nLearn, nCandidates, nTasks, nIndex, nArtifacts, nLock, nCommands,
          yMemories, yRequests, yDay, yClock, yReplies, yForgets,
          gState, gEpoch, gSource, gTarget, gBundles, gCommand, gStart, gNewest, gGranted,
          gStarts, gFaults,
          tFile, tManifest, tDaemon, tUpgrade, tNewest, tFaults,
          vTarget, vTemporary, vLock, vStep, vPython, vBase, vDamaged, vDamages,
          wNow, wAccount, wEntry, wLedger, wMonitor, wEnabled, wChat, wMoves, wFaults,
          bStored, bTemp, bThread, bSent, bPlanned, bReceipt, bNamed,
          uDisk, uMem, uAt, uBy, uJournal, uSlack, uFaults,
          kSpool, kNext, kCursor, kStoring, kEnvelopes, kRedelivered, kAnswered, kHanded,
          kStored

reviews == <<rReviews, rMerged, rVetted, rCommand, rAdopted, rRequest, rTask, rClosed, rCommands>>
lineage == <<lParent, lInbox, lQueue, lTasks, lEpoch, lHandler, lWorker, lAgain, lEvents,
             lOverlapped>>
evolution == <<eLatest, eSeen, eStudied, eEvidence, eCandidates, eProposals, eTasks, eState,
               eJob, eAgain, eApprovals>>
curation == <<cCandidate, cReview, cEnds, cPromoted, cTurn, cCurations>>
learning == <<nPublished, nLearn, nCandidates, nTasks, nIndex, nArtifacts, nLock, nCommands>>
memory == <<yMemories, yRequests, yDay, yClock, yReplies, yForgets>>
migration == <<gState, gEpoch, gSource, gTarget, gBundles, gCommand, gStart, gNewest, gGranted,
               gStarts, gFaults>>
private == <<tFile, tManifest, tDaemon, tUpgrade, tNewest, tFaults>>
environments == <<vTarget, vTemporary, vLock, vStep, vPython, vBase, vDamaged, vDamages>>
quota == <<wNow, wAccount, wEntry, wLedger, wMonitor, wEnabled, wChat, wMoves, wFaults>>
outbound == <<bStored, bTemp, bThread, bSent, bPlanned, bReceipt, bNamed>>
upload == <<uDisk, uMem, uAt, uBy, uJournal, uSlack, uFaults>>
intake == <<kSpool, kNext, kCursor, kStoring, kEnvelopes, kRedelivered, kAnswered, kHanded,
            kStored>>
self == <<reviews, lineage, evolution, curation>>
knowledge == <<learning, memory>>
installation == <<migration, private, environments>>
messages == <<quota, outbound, upload, intake>>
allVars == <<part, faults, self, knowledge, installation, messages>>

R == INSTANCE Reviews WITH
        Reviews <- Pulls, reviews <- rReviews, merged <- rMerged, vetted <- rVetted,
        command <- rCommand, adopted <- rAdopted, request <- rRequest, task <- rTask,
        closed <- rClosed, commands <- rCommands
L == INSTANCE Lineage WITH
        parent <- lParent, inbox <- lInbox, queue <- lQueue, tasks <- lTasks, epoch <- lEpoch,
        handler <- lHandler, worker <- lWorker, again <- lAgain, events <- lEvents,
        overlapped <- lOverlapped
E == INSTANCE Evolution WITH
        Tasks <- Studied, latest <- eLatest, seen <- eSeen, studied <- eStudied,
        evidence <- eEvidence, candidates <- eCandidates, proposals <- eProposals,
        tasks <- eTasks, state <- eState, job <- eJob, again <- eAgain, approvals <- eApprovals
C == INSTANCE Curation WITH
        Candidates <- PoolSize, Tasks <- EndedTasks, Reviews <- CitedReviews,
        candidate <- cCandidate, review <- cReview, ends <- cEnds, promoted <- cPromoted,
        turn <- cTurn, curations <- cCurations
N == INSTANCE Learning WITH
        Parts <- Contents, Tasks <- LearningTasks, published <- nPublished, learn <- nLearn,
        candidates <- nCandidates, tasks <- nTasks, index <- nIndex, artifacts <- nArtifacts,
        lock <- nLock, commands <- nCommands
Y == INSTANCE Memory WITH
        Threads <- Savers, Length <- MemoryLength, memories <- yMemories, requests <- yRequests,
        day <- yDay, clock <- yClock, replies <- yReplies, forgets <- yForgets
G == INSTANCE Migration WITH
        First <- FirstHost, MaxFaults <- StateFaults,
        state <- gState, epoch <- gEpoch, source <- gSource,
        target <- gTarget, bundles <- gBundles, command <- gCommand, start <- gStart,
        newest <- gNewest, granted <- gGranted, starts <- gStarts, faults <- gFaults
T == INSTANCE PrivateState WITH
        MaxFaults <- StateFaults, file <- tFile, manifest <- tManifest, daemon <- tDaemon,
        upgrade <- tUpgrade, newest <- tNewest, faults <- tFaults
V == INSTANCE Environments WITH
        target <- vTarget, temporary <- vTemporary, lock <- vLock, step <- vStep,
        python <- vPython, base <- vBase, damaged <- vDamaged, damages <- vDamages
W == INSTANCE QuotaWarnings WITH
        now <- wNow, account <- wAccount, entry <- wEntry, ledger <- wLedger, monitor <- wMonitor,
        enabled <- wEnabled, chat <- wChat, moves <- wMoves, faults <- wFaults
B == INSTANCE Outbound WITH
        Files <- Attachments, Replies <- [main |-> 2, worker |-> 1], MaxRuns <- MaxReplyRuns,
        stored <- bStored, temp <- bTemp, thread <- bThread, sent <- bSent, planned <- bPlanned,
        receipt <- bReceipt, named <- bNamed
U == INSTANCE SlackUpload WITH
        Files <- Attachments, MaxFaults <- UploadFaults, disk <- uDisk, mem <- uMem, at <- uAt,
        by <- uBy, journal <- uJournal, slack <- uSlack, faults <- uFaults
K == INSTANCE SlackIntake WITH
        Processes <- Listeners, Events <- Messages, spool <- kSpool, next <- kNext, cursor <- kCursor,
        storing <- kStoring, envelopes <- kEnvelopes, redelivered <- kRedelivered,
        answered <- kAnswered, handed <- kHanded, stored <- kStored

\* The components that do not run have one first state.
Fixed(x, S) == x = CHOOSE y \in S : TRUE

MCInit ==
    /\ part \in Parts
    /\ R!Init /\ (part # "reviews" => rRequest.named = Pulls /\ Fixed(rRequest.keep, Pulls))
    /\ L!Init /\ E!Init
    /\ C!Init /\ (part # "curation" =>
                     /\ Fixed(cCandidate, {f \in [C!Pool -> C!Kinds] :
                                               \A k \in C!Kinds : \E c \in C!Pool : f[c] = k})
                     /\ Fixed(cReview, [EndedTasks -> CitedReviews]))
    /\ N!Init /\ Y!Init
    /\ G!Init /\ T!Init /\ V!Init /\ (part # "environments" => vBase)
    /\ W!Init /\ B!Init /\ U!Init /\ K!Init

InReviews(A) ==
    part = "reviews" /\ A /\ UNCHANGED <<part, lineage, evolution, curation, knowledge, installation, messages>>
InLineage(A) ==
    part = "lineage" /\ A /\ UNCHANGED <<part, reviews, evolution, curation, knowledge, installation, messages>>
InEvolution(A) ==
    part = "evolution" /\ A /\ UNCHANGED <<part, reviews, lineage, curation, knowledge, installation, messages>>
InCuration(A) ==
    part = "curation" /\ A /\ UNCHANGED <<part, faults, reviews, lineage, evolution, knowledge, installation, messages>>
InLearning(A) ==
    part = "learning" /\ A /\ UNCHANGED <<part, self, memory, installation, messages>>
InMemory(A) ==
    part = "memory" /\ A /\ UNCHANGED <<part, self, learning, installation, messages>>
InMigration(A) ==
    part = "migration" /\ A /\ UNCHANGED <<part, faults, self, knowledge, private, environments, messages>>
InPrivateState(A) ==
    part = "private" /\ A /\ UNCHANGED <<part, faults, self, knowledge, migration, environments, messages>>
InEnvironments(A) ==
    part = "environments" /\ A /\ UNCHANGED <<part, self, knowledge, migration, private, messages>>
InQuotaWarnings(A) ==
    part = "quota" /\ A /\ UNCHANGED <<part, faults, self, knowledge, installation, outbound, upload, intake>>
InOutbound(A) ==
    part = "outbound" /\ A /\ UNCHANGED <<part, self, knowledge, installation, quota, upload, intake>>
InSlackUpload(A) ==
    part = "upload" /\ A /\ UNCHANGED <<part, faults, self, knowledge, installation, quota, outbound, intake>>
InSlackIntake(A) ==
    part = "intake" /\ A /\ UNCHANGED <<part, self, knowledge, installation, quota, outbound, upload>>

MCNext ==
    \/ InReviews(R!Next) \/ InLineage(L!Next) \/ InEvolution(E!Next) \/ InCuration(C!Next)
    \/ InLearning(N!Next) \/ InMemory(Y!Next)
    \/ InMigration(G!Next) \/ InPrivateState(T!Next) \/ InEnvironments(V!Next)
    \/ InQuotaWarnings(W!Next) \/ InOutbound(B!Next) \/ InSlackUpload(U!Next) \/ InSlackIntake(K!Next)

MCSpec == MCInit /\ [][MCNext]_allVars

-----------------------------------------------------------------------------

(* Each of these says of its components that their state is well formed,   *)
(* too.  The properties named here are stated in the components' modules.  *)

\* Reviews: what is merged is what was inspected, what is adopted has landed, and the
\* review to keep stays open.
ReviewsAreFaithful ==
    part = "reviews" => R!TypeOK /\ R!MergedAsInspected /\ R!AdoptedWorkHasLanded /\ R!KeptReviewStays

\* Lineage: no change is passed over, adopted twice or judged by what it is not.
ChangesAreAccountedFor ==
    part = "lineage" => L!TypeOK /\ L!NothingIsPassedOver /\ L!OneTaskPerChange /\ L!JudgedAsShown

\* Evolution and curation: evidence, proposals and approvals are accounted for; what
\* curation resolves is backed, and what it is shown is fair.
EvidenceIsAccountedFor ==
    /\ part = "evolution" => /\ E!TypeOK /\ E!NothingUnstudied /\ E!EvidenceIsAccountedFor
                             /\ E!OneOpenProposal /\ E!OneTaskPerApproval
    /\ part = "curation" => C!TypeOK /\ C!ResolutionIsBacked /\ C!PoolIsFair

\* Learning and memory: what is learned was published, and is kept once; a memory keeps
\* its identity.
KnowledgeIsSound ==
    /\ part = "learning" => N!TypeOK /\ N!CandidatesWerePublished /\ N!ArtifactsAreIndexedOnce
    /\ part = "memory" => Y!TypeOK /\ Y!MemoriesAreDistinct

\* Lineage, learning and migration: no decision of the owner is undone, and authority
\* only moves forward.
NothingGoesBack == L!DecisionsStand /\ N!LearningKeepsDecisions /\ G!AuthorityAdvances

\* Migration, private state and environments: one host may go on, an upgrade loses
\* nothing, and an environment in use is whole.
StateSurvives ==
    /\ part = "migration" => G!TypeOK /\ G!OneContinuation
    /\ part = "private" => T!TypeOK /\ T!UpgradeIsSafe
    /\ part = "environments" => V!TypeOK /\ V!EnvironmentInUseIsWhole

\* Attachments and Slack: a reply carries its files or says which it lacks, a file is
\* shared once, and no answered message is lost or out of order.
MessagesAreWhole ==
    /\ part = "outbound" => B!TypeOK /\ B!RepliesCarryTheirFiles /\ B!FilesAreAccountedFor
    /\ part = "upload" => U!TypeOK /\ U!FilesSharedOnce /\ U!DeliveredIsShown
    /\ part = "intake" => K!TypeOK /\ K!NothingAnsweredIsLost /\ K!HandedInOrder

\* Quota: warnings escalate within a cycle, and one that is sent is of the account's cycle.
WarningsAreTrue == part = "quota" => W!TypeOK /\ W!WarningsEscalate /\ W!WarningsAreCurrent

\* What the contract of notifications and the documentation of migration say: see
\* Outbound and Migration.
RepliesAreBounded == part = "outbound" => B!RepliesAreBounded
FenceExcludesEpochs == G!FenceExcludesEpochs
=============================================================================
