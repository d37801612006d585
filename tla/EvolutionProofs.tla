---------------------------- MODULE EvolutionProofs ----------------------------
(***************************************************************************)
(* Proofs about evolution and the curation of its candidates (Evolution,   *)
(* Curation), for every value of the constants.                            *)
(***************************************************************************)
EXTENDS MCAgent, FiniteSetTheorems, WellFoundedInduction, TLAPS

-----------------------------------------------------------------------------
(* Evolution.                                                              *)

ECands == [source : {"feedback", "experience", "brainstorming"}, evidence : SUBSET E!Signals,
           title : Titles]
Statuses == {"candidate", "approved", "removed"}
JobSteps == {"none", "read", "generate", "append", "record", "synthesize", "write", "link",
             "brainstorm", "ideas", "curate", "supersede", "propose", "ack", "enqueue", "mark",
             "removed"}
Jobs == [at : JobSteps, trigger : {"none", "threshold", "human", "schedule"},
         source : {"feedback", "experience"}, read : (SUBSET Turns) \cup (SUBSET Studied),
         version : [E!Inputs -> 0..MaxEvents], found : SUBSET E!Signals,
         drafts : SUBSET ECands, top : SUBSET ECands, event : 0..MaxApprovals,
         claim : 0..MaxClaims]

EvolutionTypes ==
    /\ eLatest \in [E!Inputs -> 0..MaxEvents] /\ eSeen \in [E!Inputs -> 0..MaxEvents]
    /\ DOMAIN eEvidence \subseteq E!Signals
    /\ DOMAIN eCandidates \subseteq ECands /\ IsFiniteSet(DOMAIN eCandidates)
    /\ eCandidates \in [DOMAIN eCandidates -> Statuses]
    /\ eProposals \in Seq([candidate : ECands, open : BOOLEAN])
    /\ eTasks \in Seq([candidate : ECands, event : Nat])
    /\ eState \in [mode : {"disabled", "co-evolve", "auto-evolve"}, due : BOOLEAN,
                   claim : 0..MaxClaims, claims : 0..MaxClaims, settings : Nat, cooled : BOOLEAN]
    /\ eJob \in Jobs /\ eAgain \subseteq ECands \X (1..MaxApprovals)
    /\ eApprovals \in 0..MaxApprovals /\ faults \in 0..MaxFaults

Used == MaxFaults - faults

\* Evidence that no candidate is linked to is cited by none, or by one for each failure;
\* the draft at hand cites such evidence.
EvidenceInv ==
    /\ \A c \in DOMAIN eCandidates : c.evidence \subseteq DOMAIN eEvidence
    /\ \A s \in DOMAIN eEvidence : eEvidence[s] \subseteq E!Cited(s)
    /\ \A s \in DOMAIN eEvidence : Cardinality(E!Cited(s)) <= Used + 1
    /\ \A s \in E!Unlinked :
          \/ Cardinality(E!Cited(s)) <= Used
          \/ eJob.at = "link" /\ \E d \in eJob.drafts : s \in d.evidence
    /\ eJob.at \in {"write", "link"} =>
          \E d \in ECands : /\ eJob.drafts = {d} /\ d.evidence \subseteq E!Unlinked
                            /\ (d \in DOMAIN eCandidates <=> eJob.at = "link")

ProposalInv ==
    /\ \A p, q \in E!Open : p = q
    /\ eJob.at = "propose" => E!Open = {}

\* Candidate c is being approved, or will be, on event e; and the task of e is there.
Asked(c, e) == <<c, e>> \in eAgain \/ (eJob.at \in {"enqueue", "mark"} /\ eJob.top = {c} /\ eJob.event = e)
HasTask(e) == \E t \in DOMAIN eTasks : eTasks[t].event = e
Own(c) == {t \in DOMAIN eTasks : eTasks[t].candidate = c}

Slack(c) ==
    IF eCandidates[c] = "approved" \/ (eJob.at = "mark" /\ eJob.top = {c}) THEN 2
    ELSE IF \E e \in 1..MaxApprovals : Asked(c, e) /\ HasTask(e) THEN 1 ELSE 0

ApprovalInv ==
    /\ \A t \in DOMAIN eTasks : eTasks[t].candidate \in DOMAIN eCandidates /\ eTasks[t].event \in 1..eApprovals
    /\ \A c \in ECands, e \in 1..MaxApprovals :
          Asked(c, e) => /\ c \in DOMAIN eCandidates /\ eCandidates[c] = "candidate" /\ e <= eApprovals
                         /\ \A t \in DOMAIN eTasks : eTasks[t].event = e => eTasks[t].candidate = c
    /\ eJob.event > 0 <=> eJob.at \in {"enqueue", "mark"}
    /\ eJob.event > 0 => eAgain = {} /\ \E c \in ECands : eJob.top = {c}
    /\ \A p, q \in eAgain : p = q
    /\ eJob.at = "mark" => HasTask(eJob.event)
    /\ \A c \in DOMAIN eCandidates : 2 * Cardinality(Own(c)) <= Used + Slack(c)
    /\ \A c \in DOMAIN eCandidates : eCandidates[c] = "approved" => Own(c) # {}

EvolutionInv == EvolutionTypes /\ EvidenceInv /\ ProposalInv /\ ApprovalInv /\ eSeen = eStudied

-----------------------------------------------------------------------------
(* What a job may become.                                                  *)

LEMMA EvolutionCardinality == \A S : E!Cardinality(S) = Cardinality(S)
  BY DEF E!Cardinality, Cardinality

LEMMA NoJobIs ==
  /\ E!NoJob \in Jobs /\ E!NoJob.at = "none" /\ E!NoJob.event = 0 /\ E!NoJob.top = {}
  /\ E!NoJob.trigger = "none" /\ E!NoJob.drafts = {}
<1>1. /\ 0 \in 0..MaxEvents /\ 0 \in 0..MaxApprovals /\ 0 \in 0..MaxClaims
      /\ [i \in E!Inputs |-> 0] \in [E!Inputs -> 0..MaxEvents]
  BY ChangesAssumption, InputsAssumption
<1>2. {} \in (SUBSET Turns) \cup (SUBSET Studied)
  OBVIOUS
<1> QED
  BY <1>1, <1>2 DEF E!NoJob, Jobs, JobSteps

LEMMA ThenIs ==
  ASSUME eJob \in Jobs, NEW step \in JobSteps, E!Then(step)
  PROVE  eJob' \in Jobs /\ eJob'.at = step /\ eJob'.event = 0
  BY NoJobIs DEF E!Then, Jobs

LEMMA GoIs ==
  ASSUME eJob \in Jobs, NEW step \in JobSteps, E!Go(step)
  PROVE  /\ eJob' \in Jobs /\ eJob'.at = step /\ eJob'.event = eJob.event
         /\ eJob'.top = eJob.top /\ eJob'.drafts = eJob.drafts
  BY DEF E!Go, Jobs

LEMMA EndIs == E!End => eJob' \in Jobs /\ eJob'.at = "none" /\ eJob'.event = 0
  BY NoJobIs DEF E!End

LEMMA NextSourceIs ==
  ASSUME eJob \in Jobs, E!NextSource
  PROVE  eJob' \in Jobs /\ eJob'.at \in {"read", "synthesize", "none"} /\ eJob'.event = 0
<1>1. CASE eJob.source = "feedback"
  <2>1. eJob' = [E!NoJob EXCEPT !.at = "read", !.trigger = eJob.trigger, !.claim = eJob.claim,
                                !.source = "experience"]
    BY <1>1 DEF E!NextSource
  <2>2. /\ eJob.trigger \in {"none", "threshold", "human", "schedule"}
        /\ eJob.claim \in 0..MaxClaims /\ "read" \in JobSteps
    BY DEF Jobs, JobSteps
  <2> QED
    BY <2>1, <2>2, NoJobIs DEF Jobs
<1>2. CASE eJob.source # "feedback" /\ E!Forced
  <2>1. E!Then("synthesize") /\ "synthesize" \in JobSteps
    BY <1>2 DEF E!NextSource, JobSteps
  <2> QED
    BY <2>1, ThenIs
<1>3. CASE eJob.source # "feedback" /\ ~E!Forced
  BY <1>3, EndIs DEF E!NextSource
<1> QED
  BY <1>1, <1>2, <1>3

LEMMA FaultIs ==
  ASSUME EvolutionTypes, E!Fault
  PROVE  faults' \in 0..MaxFaults /\ faults' = faults - 1 /\ faults' <= faults
  BY ChangesAssumption DEF E!Fault, EvolutionTypes

\* The failures so far.
LEMMA UsedGrows ==
  ASSUME EvolutionTypes, faults' \in 0..MaxFaults
  PROVE  /\ Used \in Nat /\ Used' \in Nat
         /\ faults' <= faults => Used <= Used'
         /\ faults' = faults - 1 => Used' = Used + 1
<1>1. PICK n \in Nat : n = MaxFaults
  BY ChangesAssumption
<1>2. PICK f \in 0..n, g \in 0..n : f = faults /\ g = faults'
  BY <1>1 DEF EvolutionTypes
<1>3. Used = n - f /\ Used' = n - g
  BY <1>1, <1>2 DEF Used
<1>4. /\ n - f \in Nat /\ n - g \in Nat
      /\ g <= f => n - f <= n - g
      /\ g = f - 1 => n - g = n - f + 1
  OBVIOUS
<1> QED
  BY <1>2, <1>3, <1>4

LEMMA OwnIsFinite ==
  ASSUME EvolutionTypes, NEW c
  PROVE  IsFiniteSet(Own(c)) /\ Cardinality(Own(c)) \in Nat
<1>1. Len(eTasks) \in Nat /\ DOMAIN eTasks = 1..Len(eTasks)
  BY DEF EvolutionTypes
<1>2. IsFiniteSet(1..Len(eTasks))
  BY <1>1, FS_Interval
<1>3. Own(c) \subseteq 1..Len(eTasks)
  BY <1>1 DEF Own
<1> QED
  BY <1>2, <1>3, FS_Subset, FS_CardinalityType

-----------------------------------------------------------------------------
(* Steps that leave a part of the state alone.                             *)

LEMMA EvidenceFrame ==
  ASSUME EvolutionInv, DOMAIN eCandidates' = DOMAIN eCandidates, eEvidence' = eEvidence,
         faults' \in 0..MaxFaults, faults' <= faults, eJob'.at \notin {"write", "link"},
         eJob.at = "link" => faults' < faults
  PROVE  EvidenceInv'
<1>1. ASSUME NEW s \in DOMAIN eEvidence
      PROVE  /\ Cardinality(E!Cited(s)) \in Nat /\ Cardinality(E!Cited(s)) <= Used + 1
             /\ E!Cited(s)' = E!Cited(s) /\ eEvidence[s] \subseteq E!Cited(s)
             /\ s \in E!Unlinked => Cardinality(E!Cited(s)) <= Used \/ eJob.at = "link"
  <2>1. E!Cited(s) \subseteq DOMAIN eCandidates /\ IsFiniteSet(E!Cited(s))
    BY FS_Subset DEF E!Cited, EvolutionInv, EvolutionTypes
  <2> QED
    BY <2>1, FS_CardinalityType DEF EvolutionInv, EvidenceInv, E!Cited, E!Unlinked
<1>2. faults \in 0..MaxFaults /\ Used' >= Used /\ (eJob.at = "link" => Used' >= Used + 1)
  BY ChangesAssumption DEF EvolutionInv, EvolutionTypes, Used
<1>3. Used \in Nat /\ Used' \in Nat
  BY ChangesAssumption DEF EvolutionInv, EvolutionTypes, Used
<1>4. ASSUME NEW s \in DOMAIN eEvidence
      PROVE  /\ Cardinality(E!Cited(s)') <= Used' + 1
             /\ s \in E!Unlinked => Cardinality(E!Cited(s)') <= Used'
  BY <1>1, <1>2, <1>3
<1>5. E!Unlinked' = E!Unlinked /\ E!Unlinked \subseteq DOMAIN eEvidence
  BY DEF E!Unlinked
<1>6. \A c \in DOMAIN eCandidates : c.evidence \subseteq DOMAIN eEvidence
  BY DEF EvolutionInv, EvidenceInv
<1> QED
  BY <1>1, <1>4, <1>5, <1>6 DEF EvidenceInv

LEMMA ProposalFrame ==
  ASSUME EvolutionInv, E!Open' \subseteq E!Open, eJob'.at # "propose"
  PROVE  ProposalInv'
  BY DEF EvolutionInv, ProposalInv

LEMMA ApprovalFrame ==
  ASSUME EvolutionInv, UNCHANGED <<eCandidates, eTasks, eAgain, eApprovals>>,
         faults' \in 0..MaxFaults, faults' <= faults,
         eJob.event = 0, eJob'.event = 0, eJob'.at \notin {"enqueue", "mark"}
  PROVE  ApprovalInv'
<1>1. eJob.at \notin {"enqueue", "mark"}
  BY DEF EvolutionInv, ApprovalInv
<1>2. ASSUME NEW c, NEW e
      PROVE  Asked(c, e)' <=> Asked(c, e)
  BY <1>1 DEF Asked
<1>3. ASSUME NEW c \in DOMAIN eCandidates
      PROVE  Slack(c)' = Slack(c) /\ Own(c)' = Own(c) /\ Slack(c) \in Nat
  BY <1>1, <1>2 DEF Slack, Own, HasTask
<1>4. Used \in Nat /\ Used' \in Nat /\ Used <= Used'
  BY ChangesAssumption DEF EvolutionInv, EvolutionTypes, Used
<1>5. ASSUME NEW c \in DOMAIN eCandidates
      PROVE  2 * Cardinality(Own(c)') <= Used' + Slack(c)'
  <2>1. IsFiniteSet(Own(c)) /\ Cardinality(Own(c)) \in Nat
    BY OwnIsFinite DEF EvolutionInv
  <2>2. 2 * Cardinality(Own(c)) <= Used + Slack(c)
    BY DEF EvolutionInv, ApprovalInv
  <2> QED
    BY <1>3, <1>4, <2>1, <2>2
<1> QED
  BY <1>1, <1>2, <1>3, <1>5 DEF EvolutionInv, ApprovalInv

LEMMA QuietStep ==
  ASSUME EvolutionInv, eJob.at \notin {"enqueue", "mark"},
         eJob' \in Jobs, eJob'.event = 0,
         eJob'.at \notin {"write", "link", "propose", "enqueue", "mark"},
         faults' \in 0..MaxFaults, faults' <= faults, eJob.at = "link" => faults' < faults,
         eLatest' \in [E!Inputs -> 0..MaxEvents], eSeen' \in [E!Inputs -> 0..MaxEvents],
         eSeen' = eStudied',
         UNCHANGED <<eEvidence, eCandidates, eProposals, eTasks, eAgain, eApprovals>>,
         eState' \in [mode : {"disabled", "co-evolve", "auto-evolve"}, due : BOOLEAN,
                      claim : 0..MaxClaims, claims : 0..MaxClaims, settings : Nat,
                      cooled : BOOLEAN]
  PROVE  EvolutionInv'
<1>1. EvolutionTypes'
  BY DEF EvolutionInv, EvolutionTypes
<1>2. EvidenceInv'
  BY EvidenceFrame
<1>3. ProposalInv'
  BY ProposalFrame DEF E!Open
<1>4. eJob.event = 0
  BY DEF EvolutionInv, EvolutionTypes, ApprovalInv, Jobs
<1>5. ApprovalInv'
  BY <1>4, ApprovalFrame
<1> QED
  BY <1>1, <1>2, <1>3, <1>5 DEF EvolutionInv

\* The state of the schedule and the inputs change beside a job.
LEMMA BesideJob ==
  ASSUME EvolutionInv, eLatest' \in [E!Inputs -> 0..MaxEvents],
         UNCHANGED <<eSeen, eStudied, eEvidence, eCandidates, eProposals, eTasks, eJob, eAgain,
                     eApprovals, faults>>,
         eState' \in [mode : {"disabled", "co-evolve", "auto-evolve"}, due : BOOLEAN,
                      claim : 0..MaxClaims, claims : 0..MaxClaims, settings : Nat,
                      cooled : BOOLEAN]
  PROVE  EvolutionInv'
<1>1. EvolutionTypes'
  BY DEF EvolutionInv, EvolutionTypes
<1>2. EvidenceInv'
  BY DEF EvolutionInv, EvidenceInv, Used, E!Cited, E!Unlinked
<1>3. ProposalInv'
  BY DEF EvolutionInv, ProposalInv, E!Open
<1>5. ApprovalInv'
  <2>1. \A c, e : Asked(c, e)' <=> Asked(c, e)
    BY DEF Asked
  <2>2. \A c : Own(c)' = Own(c) /\ \A e : HasTask(e)' <=> HasTask(e)
    BY DEF Own, HasTask
  <2>3. \A c : Slack(c)' = Slack(c)
    BY <2>1, <2>2 DEF Slack
  <2> QED
    BY <2>1, <2>2, <2>3 DEF EvolutionInv, ApprovalInv, Used
<1> QED
  BY <1>1, <1>2, <1>3, <1>5 DEF EvolutionInv

-----------------------------------------------------------------------------
(* Inputs, and the schedule.                                               *)

LEMMA InputFits ==
  ASSUME EvolutionTypes, NEW i \in E!Inputs, E!Total < MaxEvents
  PROVE  eLatest[i] + 1 \in 0..MaxEvents /\ 1 \in 0..MaxEvents
<1> DEFINE All == {p \in E!Inputs \X (1..MaxEvents) : p[2] <= eLatest[p[1]]}
           Of == {i} \X (1..eLatest[i])
<1>1. eLatest[i] \in 0..MaxEvents /\ MaxEvents \in Nat
  BY ChangesAssumption DEF EvolutionTypes
<1>2. /\ IsFiniteSet(E!Inputs) /\ IsFiniteSet(1..MaxEvents) /\ IsFiniteSet(1..eLatest[i])
      /\ Cardinality(1..eLatest[i]) = eLatest[i]
  <2>1. IsFiniteSet(E!Inputs)
    BY InputsAssumption DEF E!Inputs
  <2>2. IsFiniteSet(1..MaxEvents)
    BY <1>1, FS_Interval
  <2>3. IsFiniteSet(1..eLatest[i]) /\ Cardinality(1..eLatest[i]) = eLatest[i]
    <3>1. \A n \in Nat : IsFiniteSet(1..n) /\ Cardinality(1..n) = n
      BY FS_Interval
    <3> QED
      BY <1>1, <3>1
  <2> QED
    BY <2>1, <2>2, <2>3
<1>3. IsFiniteSet(E!Inputs \X (1..MaxEvents))
  BY <1>2, FS_Product
<1>4. All \in SUBSET (E!Inputs \X (1..MaxEvents))
  OBVIOUS
<1>5. IsFiniteSet(All)
  BY <1>3, <1>4, FS_Subset
<1>6. Of \in SUBSET All
  BY <1>1
<1>7. Cardinality(Of) <= Cardinality(All)
  BY <1>5, <1>6, FS_Subset
<1>8. IsFiniteSet({i}) /\ Cardinality({i}) = 1
  BY FS_Singleton
<1>9. Cardinality(Of) = 1 * eLatest[i]
  BY <1>2, <1>8, FS_Product
<1>10. E!Total = Cardinality(All)
  BY EvolutionCardinality DEF E!Total
<1>11. Cardinality(All) \in Nat
  BY <1>5, FS_CardinalityType
<1> HIDE DEF All, Of
<1> QED
  BY <1>1, <1>7, <1>9, <1>10, <1>11

LEMMA InputKeeps ==
  ASSUME EvolutionInv, NEW i \in E!Inputs, E!Turn(i) \/ E!TaskEvent(i)
  PROVE  EvolutionInv'
<1>1. /\ E!Total < MaxEvents
      /\ eLatest' = [eLatest EXCEPT ![i] = 1] \/ eLatest' = [eLatest EXCEPT ![i] = eLatest[i] + 1]
      /\ UNCHANGED <<eSeen, eStudied, eEvidence, eCandidates, eProposals, eTasks, eState, eJob,
                     eAgain, eApprovals, faults>>
  BY DEF E!Turn, E!TaskEvent, E!Durable, E!Rest
<1>2. eLatest[i] + 1 \in 0..MaxEvents /\ 1 \in 0..MaxEvents
  BY <1>1, InputFits DEF EvolutionInv
<1>3. eLatest' \in [E!Inputs -> 0..MaxEvents]
  BY <1>1, <1>2 DEF EvolutionInv, EvolutionTypes
<1> QED
  BY <1>1, <1>3, BesideJob DEF EvolutionInv, EvolutionTypes

EvolutionStates ==
    [mode : {"disabled", "co-evolve", "auto-evolve"}, due : BOOLEAN, claim : 0..MaxClaims,
     claims : 0..MaxClaims, settings : Nat, cooled : BOOLEAN]

LEMMA DueKeeps == ASSUME EvolutionInv, E!Due PROVE EvolutionInv'
<1>1. eState \in EvolutionStates /\ eState.claims + 1 \in 0..MaxClaims
  BY InputsAssumption DEF EvolutionInv, EvolutionTypes, EvolutionStates, E!Due
<1>2. TRUE \in BOOLEAN /\ FALSE \in BOOLEAN
  OBVIOUS
<1>3. eState' = [eState EXCEPT !.due = TRUE, !.claims = eState.claims + 1, !.cooled = FALSE]
  BY DEF E!Due
<1>4. eState' \in EvolutionStates
  BY <1>1, <1>2, <1>3, ZenonT(30) DEF EvolutionStates
<1> QED
  BY <1>4, BesideJob DEF E!Due, E!Rest, EvolutionInv, EvolutionTypes, EvolutionStates

-----------------------------------------------------------------------------
(* Scans.                                                                  *)

\* What a quiet step of the main thread needs.
LEMMA Quiet ==
  ASSUME EvolutionInv, eJob.at \notin {"enqueue", "mark"},
         eJob' \in Jobs, eJob'.event = 0,
         eJob'.at \notin {"write", "link", "propose", "enqueue", "mark"},
         E!Fault \/ (faults' = faults /\ eJob.at # "link"),
         UNCHANGED <<eLatest, eSeen, eStudied, eEvidence, eCandidates, eProposals, eTasks, eState,
                     eAgain, eApprovals>>
  PROVE  EvolutionInv'
<1>1. faults' \in 0..MaxFaults /\ faults' <= faults /\ (eJob.at = "link" => faults' < faults)
  BY FaultIs, ChangesAssumption DEF EvolutionInv, EvolutionTypes
<1> QED
  BY <1>1, QuietStep DEF EvolutionInv, EvolutionTypes

LEMMA PendingIs ==
  ASSUME NEW source \in {"feedback", "experience"}
  PROVE  E!Pending(source) \subseteq Turns \/ E!Pending(source) \subseteq Studied
<1>1. CASE source = "feedback"
  BY <1>1 DEF E!Pending, E!Source
<1>2. CASE source = "experience"
  <2>1. ASSUME NEW i \in E!Pending(source) PROVE i \in Studied
    BY <1>2, <2>1 DEF E!Pending, E!Source, E!Inputs
  <2> QED
    BY <2>1
<1> QED
  BY <1>1, <1>2

LEMMA ScanBegins == ASSUME EvolutionInv, E!DueScan \/ E!Read PROVE EvolutionInv'
<1>1. UNCHANGED <<eLatest, eSeen, eStudied, eEvidence, eCandidates, eProposals, eTasks, eState,
                  eAgain, eApprovals, faults>>
  BY DEF E!DueScan, E!Read, E!Durable, E!Rest
<1>2. eJob \in Jobs /\ eJob.at \in {"none", "read"}
  BY DEF EvolutionInv, EvolutionTypes, E!DueScan, E!Read, E!Idle, E!At
<1>3. eJob.event = 0
  BY <1>2 DEF EvolutionInv, ApprovalInv, Jobs
<1>4. eJob' \in Jobs /\ eJob'.event = 0
      /\ eJob'.at \notin {"write", "link", "propose", "enqueue", "mark"}
  <2>1. CASE E!DueScan
    <3>1. eJob' = [E!NoJob EXCEPT !.at = "read", !.trigger = "threshold"]
      BY <2>1 DEF E!DueScan
    <3> QED
      BY <3>1, NoJobIs DEF Jobs, JobSteps
  <2>2. CASE E!NextSource
    BY <1>2, <2>2, NextSourceIs
  <2>3. ASSUME NEW batch \in SUBSET E!Pending(eJob.source),
               eJob' = [eJob EXCEPT !.at = "generate", !.read = batch, !.version = eLatest]
        PROVE  eJob' \in Jobs /\ eJob'.event = 0 /\ eJob'.at = "generate"
    <3>1. batch \in (SUBSET Turns) \cup (SUBSET Studied)
      <4>1. eJob.source \in {"feedback", "experience"}
        BY <1>2 DEF Jobs
      <4>2. E!Pending(eJob.source) \subseteq Turns \/ E!Pending(eJob.source) \subseteq Studied
        BY <4>1, PendingIs
      <4> QED
        BY <4>2
    <3>2. eLatest \in [E!Inputs -> 0..MaxEvents]
      BY DEF EvolutionInv, EvolutionTypes
    <3> QED
      BY <1>2, <1>3, <2>3, <3>1, <3>2 DEF Jobs, JobSteps
  <2> QED
    BY <2>1, <2>2, <2>3 DEF E!Read
<1> QED
  BY <1>1, <1>2, <1>4, Quiet

LEMMA GenerateKeeps == ASSUME EvolutionInv, E!Generate PROVE EvolutionInv'
<1>1. UNCHANGED <<eLatest, eSeen, eStudied, eEvidence, eCandidates, eProposals, eTasks, eState,
                  eAgain, eApprovals>>
  BY DEF E!Generate, E!Durable, E!Rest
<1>2. eJob \in Jobs /\ eJob.at = "generate"
  BY DEF EvolutionInv, EvolutionTypes, E!Generate, E!At
<1>3. eJob.event = 0
  BY <1>2 DEF EvolutionInv, ApprovalInv, Jobs
<1>4. CASE E!NextSource /\ E!Fault
  BY <1>1, <1>2, <1>4, NextSourceIs, Quiet
<1>5. ASSUME NEW found \in SUBSET [from : (SUBSET eJob.read) \ {{}}, observation : Observations],
             eJob' = [eJob EXCEPT !.at = "append", !.found = found], faults' = faults
      PROVE  EvolutionInv'
  <2>1. eJob.read \in (SUBSET Turns) \cup (SUBSET Studied)
    BY <1>2 DEF Jobs
  <2>2. ASSUME NEW refs \in SUBSET eJob.read PROVE refs \in (SUBSET Turns) \cup (SUBSET Studied)
    BY <2>1
  <2>3. found \subseteq E!Signals
    <3>1. ASSUME NEW s \in found PROVE s \in E!Signals
      <4> DEFINE froms == (SUBSET eJob.read) \ {{}}
      <4>0. s \in [from : froms, observation : Observations]
        BY <1>5, <3>1
      <4>3. s.from \in froms
        <5> HIDE DEF froms
        <5> QED
          BY <4>0
      <4>1. /\ s.from \in SUBSET eJob.read /\ s.from # {} /\ s.observation \in Observations
            /\ s = [from |-> s.from, observation |-> s.observation]
        <5>1. s.observation \in Observations /\ s = [from |-> s.from, observation |-> s.observation]
          <6> HIDE DEF froms
          <6> QED
            BY <4>0
        <5>2. s.from \in SUBSET eJob.read /\ s.from # {}
          BY <4>3
        <5> QED
          BY <5>1, <5>2
      <4>2. s.from \in ((SUBSET Turns) \cup (SUBSET Studied)) \ {{}}
        BY <2>2, <4>1
      <4> QED
        BY <4>1, <4>2 DEF E!Signals
    <3> QED
      BY <3>1
  <2>4. eJob' \in Jobs /\ eJob'.event = 0 /\ eJob'.at = "append"
    BY <1>2, <1>3, <1>5, <2>3 DEF Jobs, JobSteps
  <2> QED
    BY <1>1, <1>2, <1>5, <2>4, Quiet
<1> QED
  BY <1>4, <1>5 DEF E!Generate

LEMMA RecordScanKeeps == ASSUME EvolutionInv, E!RecordScan PROVE EvolutionInv'
<1>1. UNCHANGED <<eLatest, eEvidence, eCandidates, eProposals, eTasks, eState, eAgain, eApprovals>>
  BY DEF E!RecordScan, E!Rest
<1>2. eJob \in Jobs /\ eJob.at = "record"
  BY DEF EvolutionInv, EvolutionTypes, E!RecordScan, E!At
<1>3. eJob.event = 0
  BY <1>2 DEF EvolutionInv, ApprovalInv, Jobs
<1>4. CASE E!NextSource /\ E!Fault /\ UNCHANGED <<eSeen, eStudied>>
  BY <1>1, <1>2, <1>4, NextSourceIs, Quiet
<1>5. CASE /\ eSeen' = [i \in E!Inputs |-> IF i \in eJob.read THEN eJob.version[i] ELSE eSeen[i]]
           /\ eStudied' = [i \in E!Inputs |-> IF i \in eJob.read THEN eJob.version[i] ELSE eStudied[i]]
           /\ E!Go("read") \/ E!NextSource
           /\ UNCHANGED faults
  <2>1. eJob' \in Jobs /\ eJob'.event = 0 /\ eJob'.at \in {"read", "synthesize", "none"}
    BY <1>2, <1>3, <1>5, GoIs, NextSourceIs DEF JobSteps
  <2>2. eSeen = eStudied /\ eSeen \in [E!Inputs -> 0..MaxEvents]
        /\ eJob.version \in [E!Inputs -> 0..MaxEvents]
    BY <1>2 DEF EvolutionInv, EvolutionTypes, Jobs
  <2>3. eSeen' = eStudied' /\ eSeen' \in [E!Inputs -> 0..MaxEvents]
    BY <1>5, <2>2
  <2>4. faults' \in 0..MaxFaults /\ faults' <= faults
    BY <1>5, ChangesAssumption DEF EvolutionInv, EvolutionTypes
  <2> QED
    BY <1>1, <1>2, <2>1, <2>3, <2>4, QuietStep DEF EvolutionInv, EvolutionTypes
<1> QED
  BY <1>4, <1>5 DEF E!RecordScan

\* New evidence is cited by nothing.
LEMMA AppendKeeps == ASSUME EvolutionInv, E!AppendSignals PROVE EvolutionInv'
<1>1. /\ UNCHANGED <<eLatest, eSeen, eStudied, eCandidates, eProposals, eTasks, eState, eAgain,
                     eApprovals>>
      /\ \/ /\ eEvidence' = [s \in DOMAIN eEvidence \cup eJob.found |->
                                IF s \in DOMAIN eEvidence THEN eEvidence[s] ELSE {}]
            /\ E!Go("record") /\ faults' = faults
         \/ E!NextSource /\ E!Fault /\ UNCHANGED eEvidence
  BY DEF E!AppendSignals, E!Rest
<1>2. eJob \in Jobs /\ eJob.at = "append"
  BY DEF EvolutionInv, EvolutionTypes, E!AppendSignals, E!At
<1>3. eJob.event = 0
  BY <1>2 DEF EvolutionInv, ApprovalInv, Jobs
<1>4. CASE E!NextSource /\ E!Fault /\ UNCHANGED eEvidence
  BY <1>1, <1>2, <1>4, NextSourceIs, Quiet
<1>5. CASE /\ eEvidence' = [s \in DOMAIN eEvidence \cup eJob.found |->
                               IF s \in DOMAIN eEvidence THEN eEvidence[s] ELSE {}]
           /\ E!Go("record") /\ faults' = faults
  <2>1. eJob' \in Jobs /\ eJob'.event = 0 /\ eJob'.at = "record"
    BY <1>2, <1>3, <1>5, GoIs DEF JobSteps
  <2>2. eJob.found \subseteq E!Signals /\ DOMAIN eEvidence' = DOMAIN eEvidence \cup eJob.found
    BY <1>2, <1>5 DEF Jobs
  <2>3. EvolutionTypes'
    BY <1>1, <1>5, <2>1, <2>2 DEF EvolutionInv, EvolutionTypes
  <2>4. EvidenceInv'
    <3>1. \A s : E!Cited(s)' = E!Cited(s)
      BY <1>1 DEF E!Cited
    <3>2. Used' = Used /\ Used \in Nat
      BY <1>5, ChangesAssumption DEF Used, EvolutionInv, EvolutionTypes
    <3>3. ASSUME NEW s \in DOMAIN eEvidence', s \notin DOMAIN eEvidence
          PROVE  eEvidence'[s] = {} /\ Cardinality(E!Cited(s)) = 0
      <4>1. E!Cited(s) = {}
        BY <3>3 DEF E!Cited, EvolutionInv, EvidenceInv
      <4> QED
        BY <1>5, <2>2, <3>3, <4>1, FS_EmptySet
    <3>4. ASSUME NEW s \in DOMAIN eEvidence'
          PROVE  /\ eEvidence'[s] \subseteq E!Cited(s)'
                 /\ Cardinality(E!Cited(s)') <= Used' + 1
                 /\ eEvidence'[s] = {} => Cardinality(E!Cited(s)') <= Used'
      <4>1. CASE s \in DOMAIN eEvidence
        <5>1. eEvidence'[s] = eEvidence[s]
          BY <1>5, <4>1
        <5> QED
          BY <1>2, <3>1, <3>2, <4>1, <5>1 DEF EvolutionInv, EvidenceInv, E!Unlinked
      <4>2. CASE s \notin DOMAIN eEvidence
        BY <3>1, <3>2, <3>3, <4>2
      <4> QED
        BY <4>1, <4>2
    <3>5. \A c \in DOMAIN eCandidates' : c.evidence \subseteq DOMAIN eEvidence'
      BY <1>1, <2>2 DEF EvolutionInv, EvidenceInv
    <3> QED
      BY <2>1, <3>4, <3>5 DEF EvidenceInv, E!Unlinked
  <2>5. ProposalInv'
    BY <1>1, <2>1, ProposalFrame DEF E!Open
  <2>6. faults' \in 0..MaxFaults /\ faults' <= faults
    BY <1>5, ChangesAssumption DEF EvolutionInv, EvolutionTypes
  <2>7. ApprovalInv'
    BY <1>1, <1>3, <2>1, <2>6, ApprovalFrame
  <2> QED
    BY <1>1, <2>3, <2>4, <2>5, <2>7 DEF EvolutionInv
<1> QED
  BY <1>1, <1>4, <1>5

-----------------------------------------------------------------------------
(* Candidates are written, then linked.                                    *)

\* A draft is a candidate of evidence that none is linked to.
LEMMA DraftIs ==
  ASSUME EvolutionTypes, NEW d \in E!Drafts
  PROVE  d \in ECands /\ d.evidence \subseteq E!Unlinked
<1>1. d \in [source : {"feedback", "experience"}, evidence : (SUBSET E!Unlinked) \ {{}}, title : Titles]
  BY DEF E!Drafts
<1>2. d.source \in {"feedback", "experience"} /\ d.evidence \in SUBSET E!Unlinked
      /\ d.title \in Titles /\ d = [source |-> d.source, evidence |-> d.evidence, title |-> d.title]
  BY <1>1
<1>3. E!Unlinked \subseteq E!Signals
  BY DEF E!Unlinked, EvolutionTypes
<1> QED
  BY <1>2, <1>3 DEF ECands

\* Evidence is linked to a candidate that is stored.
LEMMA LinkKeeps ==
  ASSUME EvolutionInv, NEW d \in DOMAIN eCandidates, eEvidence' = E!Linked(d.evidence, d),
         eJob.at \in {"synthesize", "link"},
         eJob.at = "link" => eJob.drafts = {d},
         E!Then("brainstorm"), faults' = faults,
         UNCHANGED <<eLatest, eSeen, eStudied, eCandidates, eProposals, eTasks, eState, eAgain,
                     eApprovals>>
  PROVE  EvolutionInv'
<1>1. eJob' \in Jobs /\ eJob'.event = 0 /\ eJob'.at = "brainstorm"
  BY ThenIs DEF EvolutionInv, EvolutionTypes, JobSteps
<1>2. DOMAIN eEvidence' = DOMAIN eEvidence
      /\ \A s \in DOMAIN eEvidence :
            eEvidence'[s] = IF s \in d.evidence THEN eEvidence[s] \cup {d} ELSE eEvidence[s]
  BY DEF E!Linked
<1>3. EvolutionTypes'
  BY <1>1, <1>2 DEF EvolutionInv, EvolutionTypes
<1>4. EvidenceInv'
  <2>1. \A s : E!Cited(s)' = E!Cited(s)
    BY DEF E!Cited
  <2>2. Used' = Used /\ Used \in Nat
    BY ChangesAssumption DEF Used, EvolutionInv, EvolutionTypes
  <2>3. ASSUME NEW s \in DOMAIN eEvidence
        PROVE  /\ eEvidence'[s] \subseteq E!Cited(s)'
               /\ Cardinality(E!Cited(s)') <= Used' + 1
               /\ eEvidence'[s] = {} => Cardinality(E!Cited(s)') <= Used'
    <3>1. eEvidence[s] \subseteq E!Cited(s) /\ Cardinality(E!Cited(s)) <= Used + 1
      BY DEF EvolutionInv, EvidenceInv
    <3>2. s \in d.evidence => d \in E!Cited(s)
      BY DEF E!Cited
    <3>3. eEvidence'[s] = {} => s \notin d.evidence /\ eEvidence[s] = {}
      BY <1>2
    <3>4. s \in E!Unlinked /\ s \notin d.evidence => Cardinality(E!Cited(s)) <= Used
      BY DEF EvolutionInv, EvidenceInv
    <3> QED
      BY <1>2, <2>1, <2>2, <3>1, <3>2, <3>3, <3>4 DEF E!Unlinked
  <2>4. \A c \in DOMAIN eCandidates' : c.evidence \subseteq DOMAIN eEvidence'
    BY <1>2 DEF EvolutionInv, EvidenceInv
  <2> QED
    BY <1>1, <1>2, <2>3, <2>4 DEF EvidenceInv, E!Unlinked
<1>5. ProposalInv'
  BY <1>1, ProposalFrame DEF E!Open
<1>6. faults' \in 0..MaxFaults /\ faults' <= faults /\ eJob.event = 0
  BY ChangesAssumption DEF EvolutionInv, EvolutionTypes, ApprovalInv, Jobs
<1>7. ApprovalInv'
  BY <1>1, <1>6, ApprovalFrame
<1> QED
  BY <1>3, <1>4, <1>5, <1>7 DEF EvolutionInv

\* A candidate is written: the draft at hand, which is linked next, or an idea, which
\* cites nothing.
LEMMA WriteKeeps ==
  ASSUME EvolutionInv, NEW c \in ECands, c \notin DOMAIN eCandidates,
         eCandidates' = E!With(eCandidates, c, "candidate"),
         eJob.at \in {"write", "ideas"}, c.evidence \subseteq E!Unlinked,
         eJob' \in Jobs, eJob'.event = 0, eJob'.at \in {"link", "curate"},
         eJob'.at = "link" => eJob'.drafts = {c},
         eJob'.at # "link" => c.evidence = {},
         faults' = faults,
         UNCHANGED <<eLatest, eSeen, eStudied, eEvidence, eProposals, eTasks, eState, eAgain,
                     eApprovals>>
  PROVE  EvolutionInv'
<1>1. /\ DOMAIN eCandidates' = DOMAIN eCandidates \cup {c} /\ eCandidates'[c] = "candidate"
      /\ \A x \in DOMAIN eCandidates : eCandidates'[x] = eCandidates[x]
      /\ eCandidates' = [x \in DOMAIN eCandidates' |-> eCandidates'[x]]
  BY DEF E!With
<1>2. Used' = Used /\ Used \in Nat
  BY ChangesAssumption DEF Used, EvolutionInv, EvolutionTypes
<1>3. EvolutionTypes'
  <2>1. IsFiniteSet(DOMAIN eCandidates')
    BY <1>1, FS_AddElement DEF EvolutionInv, EvolutionTypes
  <2>2. eCandidates' \in [DOMAIN eCandidates' -> Statuses]
    BY <1>1 DEF EvolutionInv, EvolutionTypes, Statuses
  <2> QED
    BY <1>1, <2>1, <2>2 DEF EvolutionInv, EvolutionTypes
<1>4. EvidenceInv'
  <2>1. ASSUME NEW s \in DOMAIN eEvidence
        PROVE  /\ E!Cited(s)' = IF s \in c.evidence THEN E!Cited(s) \cup {c} ELSE E!Cited(s)
               /\ IsFiniteSet(E!Cited(s)) /\ Cardinality(E!Cited(s)) \in Nat /\ c \notin E!Cited(s)
    <3>1. E!Cited(s)' = IF s \in c.evidence THEN E!Cited(s) \cup {c} ELSE E!Cited(s)
      BY <1>1 DEF E!Cited
    <3>2. E!Cited(s) \subseteq DOMAIN eCandidates /\ IsFiniteSet(DOMAIN eCandidates)
      BY DEF E!Cited, EvolutionInv, EvolutionTypes
    <3> QED
      BY <3>1, <3>2, FS_Subset, FS_CardinalityType
  <2>2. ASSUME NEW s \in DOMAIN eEvidence
        PROVE  /\ eEvidence'[s] \subseteq E!Cited(s)'
               /\ Cardinality(E!Cited(s)') <= Used' + 1
               /\ s \in E!Unlinked => \/ Cardinality(E!Cited(s)') <= Used'
                                      \/ eJob'.at = "link" /\ s \in c.evidence
    <3>1. /\ eEvidence[s] \subseteq E!Cited(s) /\ Cardinality(E!Cited(s)) <= Used + 1
          /\ s \in E!Unlinked => Cardinality(E!Cited(s)) <= Used
      BY DEF EvolutionInv, EvidenceInv
    <3>2. CASE s \notin c.evidence
      BY <1>2, <2>1, <3>1, <3>2
    <3>3. CASE s \in c.evidence
      <4>1. eJob'.at = "link" /\ s \in E!Unlinked
        BY <3>3
      <4>2. E!Cited(s)' = E!Cited(s) \cup {c}
        BY <2>1, <3>3
      <4>3. Cardinality(E!Cited(s)') = Cardinality(E!Cited(s)) + 1
        <5>1. /\ IsFiniteSet(E!Cited(s)) /\ c \notin E!Cited(s)
          BY <2>1
        <5>2. Cardinality(E!Cited(s) \cup {c}) = Cardinality(E!Cited(s)) + 1
          BY <5>1, FS_AddElement
        <5> QED
          BY <4>2, <5>2
      <4> QED
        BY <1>2, <2>1, <3>1, <3>3, <4>1, <4>2, <4>3
    <3> QED
      BY <3>2, <3>3
  <2>3. E!Unlinked' = E!Unlinked /\ E!Unlinked \subseteq DOMAIN eEvidence
    BY DEF E!Unlinked
  <2>4. \A x \in DOMAIN eCandidates' : x.evidence \subseteq DOMAIN eEvidence'
    BY <1>1, <2>3 DEF EvolutionInv, EvidenceInv
  <2> QED
    BY <1>1, <2>2, <2>3, <2>4 DEF EvidenceInv
<1>5. ProposalInv'
  BY ProposalFrame DEF E!Open
<1>6. eJob.event = 0 /\ eJob.at \notin {"enqueue", "mark"} /\ eJob'.at \notin {"enqueue", "mark"}
  BY DEF EvolutionInv, EvolutionTypes, ApprovalInv, Jobs
<1>7. ApprovalInv'
  <2>1. \A x, e : Asked(x, e)' <=> Asked(x, e)
    BY <1>6 DEF Asked
  <2>2. \A x : Own(x)' = Own(x) /\ \A e : HasTask(e)' <=> HasTask(e)
    BY DEF Own, HasTask
  <2>3. \A x \in DOMAIN eCandidates : Slack(x)' = Slack(x)
    BY <1>1, <1>6, <2>1, <2>2 DEF Slack
  <2>4. Own(c) = {} /\ Slack(c)' \in Nat
    BY DEF Own, Slack, EvolutionInv, ApprovalInv
  <2>5. Cardinality(Own(c)) = 0
    BY <2>4, FS_EmptySet
  <2>6. \A x \in DOMAIN eCandidates' : 2 * Cardinality(Own(x)') <= Used' + Slack(x)'
    <3> SUFFICES ASSUME NEW x \in DOMAIN eCandidates'
                 PROVE  2 * Cardinality(Own(x)') <= Used' + Slack(x)'
      OBVIOUS
    <3>1. CASE x = c
      <4>1. Cardinality(Own(x)') = 0 /\ Slack(x)' \in Nat
        BY <2>2, <2>4, <2>5, <3>1
      <4> QED
        BY <1>2, <4>1
    <3>2. CASE x # c
      <4>1. x \in DOMAIN eCandidates
        BY <1>1, <3>2
      <4>2. 2 * Cardinality(Own(x)) <= Used + Slack(x)
        BY <4>1 DEF EvolutionInv, ApprovalInv
      <4> QED
        BY <1>2, <2>2, <2>3, <4>1, <4>2
    <3> QED
      BY <3>1, <3>2
  <2> QED
    BY <1>1, <1>6, <2>1, <2>2, <2>6 DEF EvolutionInv, ApprovalInv
<1> QED
  BY <1>3, <1>4, <1>5, <1>7 DEF EvolutionInv

LEMMA SynthesizeKeeps == ASSUME EvolutionInv, E!Synthesize PROVE EvolutionInv'
<1>1. /\ UNCHANGED <<eLatest, eSeen, eStudied, eCandidates, eProposals, eTasks, eState, eAgain,
                     eApprovals, faults>>
      /\ \/ \E d \in E!Drafts :
               IF d \in DOMAIN eCandidates
               THEN eEvidence' = E!Linked(d.evidence, d) /\ E!Then("brainstorm")
               ELSE /\ eJob' = [eJob EXCEPT !.at = "write", !.drafts = {d}]
                    /\ UNCHANGED eEvidence
         \/ E!Then("brainstorm") /\ UNCHANGED eEvidence
  BY DEF E!Synthesize, E!Rest
<1>2. eJob \in Jobs /\ eJob.at = "synthesize" /\ "brainstorm" \in JobSteps
  BY DEF EvolutionInv, EvolutionTypes, E!Synthesize, E!At, JobSteps
<1>3. eJob.event = 0
  BY <1>2 DEF EvolutionInv, ApprovalInv, Jobs
<1>4. CASE E!Then("brainstorm") /\ UNCHANGED eEvidence
  BY <1>1, <1>2, <1>4, ThenIs, Quiet
<1>5. ASSUME NEW d \in E!Drafts, d \in DOMAIN eCandidates,
             eEvidence' = E!Linked(d.evidence, d), E!Then("brainstorm")
      PROVE  EvolutionInv'
  BY <1>1, <1>2, <1>5, LinkKeeps
<1>6. ASSUME NEW d \in E!Drafts, d \notin DOMAIN eCandidates, UNCHANGED eEvidence,
             eJob' = [eJob EXCEPT !.at = "write", !.drafts = {d}]
      PROVE  EvolutionInv'
  <2>1. d \in ECands /\ d.evidence \subseteq E!Unlinked
    BY DraftIs DEF EvolutionInv
  <2>2. /\ eJob' \in Jobs /\ eJob'.event = 0 /\ eJob'.at = "write" /\ eJob'.drafts = {d}
    BY <1>2, <1>3, <1>6, <2>1 DEF Jobs, JobSteps
  <2>3. EvolutionTypes'
    BY <1>1, <1>6, <2>2 DEF EvolutionInv, EvolutionTypes
  <2>4. EvidenceInv'
    <3>1. \A s : E!Cited(s)' = E!Cited(s)
      BY <1>1 DEF E!Cited
    <3>2. Used' = Used /\ E!Unlinked' = E!Unlinked
      BY <1>1, <1>6 DEF Used, E!Unlinked
    <3> QED
      BY <1>1, <1>2, <1>6, <2>1, <2>2, <3>1, <3>2 DEF EvolutionInv, EvidenceInv
  <2>5. ProposalInv'
    BY <1>1, <2>2, ProposalFrame DEF E!Open
  <2>6. faults' \in 0..MaxFaults /\ faults' <= faults
    <3>1. faults' = faults
      BY <1>1
    <3> QED
      BY <3>1, ChangesAssumption DEF EvolutionInv, EvolutionTypes
  <2>7. ApprovalInv'
    BY <1>1, <1>3, <2>2, <2>6, ApprovalFrame
  <2> QED
    BY <1>1, <2>3, <2>4, <2>5, <2>7 DEF EvolutionInv
<1> QED
  BY <1>1, <1>4, <1>5, <1>6

LEMMA WriteCandidateKeeps == ASSUME EvolutionInv, E!WriteCandidate PROVE EvolutionInv'
<1>1. /\ UNCHANGED <<eLatest, eSeen, eStudied, eEvidence, eProposals, eTasks, eState, eAgain,
                     eApprovals>>
      /\ \/ /\ \E d \in eJob.drafts : eCandidates' = E!With(eCandidates, d, "candidate")
            /\ E!Go("link") /\ UNCHANGED faults
         \/ E!Then("brainstorm") /\ E!Fault /\ UNCHANGED eCandidates
  BY DEF E!WriteCandidate, E!Rest
<1>2. eJob \in Jobs /\ eJob.at = "write" /\ "brainstorm" \in JobSteps /\ "link" \in JobSteps
  BY DEF EvolutionInv, EvolutionTypes, E!WriteCandidate, E!At, JobSteps
<1>3. eJob.event = 0
  BY <1>2 DEF EvolutionInv, ApprovalInv, Jobs
<1>4. CASE E!Then("brainstorm") /\ E!Fault /\ UNCHANGED eCandidates
  BY <1>1, <1>2, <1>4, ThenIs, Quiet
<1>5. ASSUME NEW d \in eJob.drafts, eCandidates' = E!With(eCandidates, d, "candidate"),
             E!Go("link"), UNCHANGED faults
      PROVE  EvolutionInv'
  <2>1. /\ d \in ECands /\ eJob.drafts = {d} /\ d.evidence \subseteq E!Unlinked
        /\ d \notin DOMAIN eCandidates
    BY <1>2 DEF EvolutionInv, EvidenceInv
  <2>2. eJob' \in Jobs /\ eJob'.at = "link" /\ eJob'.event = 0 /\ eJob'.drafts = {d}
    BY <1>2, <1>3, <1>5, <2>1, GoIs
  <2> QED
    BY <1>1, <1>2, <1>5, <2>1, <2>2, WriteKeeps
<1> QED
  BY <1>1, <1>4, <1>5

LEMMA LinkEvidenceKeeps == ASSUME EvolutionInv, E!LinkEvidence PROVE EvolutionInv'
<1>1. /\ UNCHANGED <<eLatest, eSeen, eStudied, eCandidates, eProposals, eTasks, eState, eAgain,
                     eApprovals>>
      /\ \/ /\ \E d \in eJob.drafts : eEvidence' = E!Linked(d.evidence, d)
            /\ E!Then("brainstorm") /\ UNCHANGED faults
         \/ E!Then("brainstorm") /\ E!Fault /\ UNCHANGED eEvidence
  BY DEF E!LinkEvidence, E!Rest
<1>2. eJob \in Jobs /\ eJob.at = "link" /\ "brainstorm" \in JobSteps
  BY DEF EvolutionInv, EvolutionTypes, E!LinkEvidence, E!At, JobSteps
<1>3. CASE E!Then("brainstorm") /\ E!Fault /\ UNCHANGED eEvidence
  BY <1>1, <1>2, <1>3, ThenIs, Quiet
<1>4. ASSUME NEW d \in eJob.drafts, eEvidence' = E!Linked(d.evidence, d), E!Then("brainstorm"),
             UNCHANGED faults
      PROVE  EvolutionInv'
  <2>1. d \in DOMAIN eCandidates /\ eJob.drafts = {d}
    BY <1>2 DEF EvolutionInv, EvidenceInv
  <2> QED
    BY <1>1, <1>2, <1>4, <2>1, LinkKeeps
<1> QED
  BY <1>1, <1>3, <1>4

LEMMA IdeasKeep == ASSUME EvolutionInv, E!Ideas PROVE EvolutionInv'
<1> DEFINE idea == [source |-> "brainstorming", evidence |-> {}, title |-> CHOOSE t \in Titles : TRUE]
<1>1. /\ UNCHANGED <<eLatest, eSeen, eStudied, eEvidence, eProposals, eTasks, eState, eAgain,
                     eApprovals, faults>>
      /\ E!Go("curate")
      /\ \/ UNCHANGED eCandidates
         \/ idea \notin DOMAIN eCandidates /\ eCandidates' = E!With(eCandidates, idea, "candidate")
  BY DEF E!Ideas, E!Rest
<1>2. eJob \in Jobs /\ eJob.at = "ideas" /\ "curate" \in JobSteps
  BY DEF EvolutionInv, EvolutionTypes, E!Ideas, E!At, JobSteps
<1>3. eJob.event = 0
  BY <1>2 DEF EvolutionInv, ApprovalInv, Jobs
<1>4. eJob' \in Jobs /\ eJob'.at = "curate" /\ eJob'.event = 0
  BY <1>1, <1>2, <1>3, GoIs
<1>5. CASE UNCHANGED eCandidates
  BY <1>1, <1>2, <1>4, <1>5, Quiet
<1>6. CASE idea \notin DOMAIN eCandidates /\ eCandidates' = E!With(eCandidates, idea, "candidate")
  <2>1. idea \in ECands /\ idea.evidence = {}
    BY InputsAssumption DEF ECands
  <2>2. idea.evidence \subseteq E!Unlinked
    BY <2>1
  <2> HIDE DEF idea
  <2> QED
    BY <1>1, <1>2, <1>4, <1>6, <2>1, <2>2, WriteKeeps
<1> QED
  BY <1>1, <1>5, <1>6

-----------------------------------------------------------------------------
(* Proposals.                                                              *)

LEMMA ProposalBegins ==
  ASSUME EvolutionInv, E!Propose \/ E!ClaimSchedule \/ E!Brainstorm \/ E!Curate
  PROVE  EvolutionInv'
<1>1. /\ UNCHANGED <<eLatest, eSeen, eStudied, eEvidence, eCandidates, eProposals, eTasks, eAgain,
                     eApprovals, faults>>
  BY DEF E!Propose, E!ClaimSchedule, E!Brainstorm, E!Curate, E!Durable, E!Rest
<1>2. eJob \in Jobs /\ eJob.at \in {"none", "brainstorm", "curate"}
  BY DEF EvolutionInv, EvolutionTypes, E!Propose, E!ClaimSchedule, E!Brainstorm, E!Curate, E!At,
         E!Idle
<1>3. eJob.event = 0 /\ eState \in EvolutionStates
  BY <1>2 DEF EvolutionInv, EvolutionTypes, EvolutionStates, ApprovalInv, Jobs
<1>4. /\ eJob' \in Jobs /\ eJob'.event = 0
      /\ eJob'.at \notin {"write", "link", "propose", "enqueue", "mark"}
      /\ eState' \in EvolutionStates
  <2>1. CASE E!Propose
    <3>1. /\ eState' = eState
          /\ eJob' = [E!NoJob EXCEPT !.at = IF eState.mode = "disabled" THEN "curate" ELSE "read",
                                     !.trigger = "human"]
      BY <2>1 DEF E!Propose, E!Durable
    <3> QED
      BY <1>3, <3>1, NoJobIs DEF Jobs, JobSteps
  <2>2. CASE E!ClaimSchedule
    <3>1. PICK claim \in 0..MaxClaims :
             /\ eState' = [eState EXCEPT !.claim = claim]
             /\ eJob' = [E!NoJob EXCEPT !.at = IF eState.mode = "disabled" THEN "ack" ELSE "read",
                                        !.trigger = "schedule", !.claim = claim]
      BY <1>3, <2>2 DEF E!ClaimSchedule, EvolutionStates
    <3>2. eState' \in EvolutionStates
      BY <1>3, <3>1 DEF EvolutionStates
    <3> QED
      BY <3>1, <3>2, NoJobIs DEF Jobs, JobSteps
  <2>3. CASE E!Brainstorm
    <3>1. \/ eState' = [eState EXCEPT !.cooled = TRUE] /\ E!Go("ideas")
          \/ eState' = eState /\ E!Go("curate")
      BY <2>3 DEF E!Brainstorm
    <3>2. eState' \in EvolutionStates
      BY <1>3, <3>1, ZenonT(30) DEF EvolutionStates
    <3> QED
      BY <1>2, <1>3, <3>1, <3>2, GoIs DEF JobSteps
  <2>4. CASE E!Curate
    <3>1. /\ eState' = eState
          /\ \/ \E c \in E!Actionable : eJob' = [eJob EXCEPT !.at = "supersede", !.top = {c}]
             \/ E!Then("ack")
             \/ E!End
      BY <2>4 DEF E!Curate, E!AfterProposal, E!Durable
    <3>2. E!Actionable \subseteq ECands
      BY DEF E!Actionable, EvolutionInv, EvolutionTypes
    <3>3. CASE \E c \in E!Actionable : eJob' = [eJob EXCEPT !.at = "supersede", !.top = {c}]
      <4>1. PICK c \in ECands : eJob' = [eJob EXCEPT !.at = "supersede", !.top = {c}]
        BY <3>2, <3>3
      <4>2. {c} \in SUBSET ECands /\ "supersede" \in JobSteps
        BY DEF JobSteps
      <4>3. eJob' \in Jobs
        BY <1>2, <4>1, <4>2 DEF Jobs
      <4>4. eJob'.at = "supersede" /\ eJob'.event = 0
        BY <1>2, <1>3, <4>1 DEF Jobs
      <4> QED
        BY <3>1, <1>3, <4>3, <4>4
    <3>4. CASE E!Then("ack") \/ E!End
      BY <1>2, <1>3, <3>1, <3>4, ThenIs, EndIs DEF JobSteps
    <3> QED
      BY <3>1, <3>3, <3>4
  <2> QED
    BY <2>1, <2>2, <2>3, <2>4
<1>5. faults' \in 0..MaxFaults /\ faults' <= faults
  <2>1. faults' = faults
    BY <1>1
  <2> QED
    BY <2>1, ChangesAssumption DEF EvolutionInv, EvolutionTypes
<1> QED
  BY <1>1, <1>2, <1>4, <1>5, QuietStep DEF EvolutionInv, EvolutionTypes, EvolutionStates

LEMMA SettingsKeep ==
  ASSUME EvolutionInv,
         E!Acknowledge \/ \E mode \in {"disabled", "co-evolve", "auto-evolve"} : E!SetMode(mode)
  PROVE  EvolutionInv'
<1>1. UNCHANGED <<eLatest, eSeen, eStudied, eEvidence, eCandidates, eProposals, eTasks, eAgain,
                  eApprovals, faults>>
  BY DEF E!Acknowledge, E!SetMode, E!Rest
<1>2. eJob \in Jobs /\ eJob.at \in {"none", "ack"} /\ eState \in EvolutionStates
  BY DEF EvolutionInv, EvolutionTypes, EvolutionStates, E!Acknowledge, E!SetMode, E!At, E!Idle
<1>3. eJob.event = 0 /\ 0 \in 0..MaxClaims
  BY <1>2, InputsAssumption DEF EvolutionInv, ApprovalInv, Jobs
<1>4. /\ eJob' \in Jobs /\ eJob'.event = 0
      /\ eJob'.at \notin {"write", "link", "propose", "enqueue", "mark"}
  <2>1. E!End \/ eJob' = eJob
    BY DEF E!Acknowledge, E!SetMode
  <2> QED
    BY <1>2, <1>3, <2>1, EndIs
<1>5. eState' \in EvolutionStates
  <2>1. CASE E!Acknowledge
    <3>1. eState' = eState \/ eState' = [eState EXCEPT !.claim = 0, !.due = FALSE]
      BY <2>1 DEF E!Acknowledge
    <3>2. FALSE \in BOOLEAN
      OBVIOUS
    <3> QED
      BY <1>2, <1>3, <3>1, <3>2, ZenonT(30) DEF EvolutionStates
  <2>2. ASSUME NEW mode \in {"disabled", "co-evolve", "auto-evolve"}, E!SetMode(mode)
        PROVE  eState' \in EvolutionStates
    <3>1. eState' = [eState EXCEPT !.mode = mode, !.claim = 0, !.settings = eState.settings + 1]
      BY <2>2 DEF E!SetMode
    <3>2. eState.settings + 1 \in Nat
      BY <1>2 DEF EvolutionStates
    <3> QED
      BY <1>2, <1>3, <3>1, <3>2, ZenonT(30) DEF EvolutionStates
  <2> QED
    BY <2>1, <2>2
<1>6. faults' \in 0..MaxFaults /\ faults' <= faults
  <2>1. faults' = faults
    BY <1>1
  <2> QED
    BY <2>1, ChangesAssumption DEF EvolutionInv, EvolutionTypes
<1> QED
  BY <1>1, <1>2, <1>4, <1>5, <1>6, QuietStep DEF EvolutionInv, EvolutionTypes, EvolutionStates

ProposalSet == [candidate : ECands, open : BOOLEAN]

\* Some proposals are closed.
LEMMA ClosedAre ==
  ASSUME EvolutionTypes, NEW S,
         eProposals' = [p \in DOMAIN eProposals |->
                          IF p \in S THEN [eProposals[p] EXCEPT !.open = FALSE] ELSE eProposals[p]]
  PROVE  /\ eProposals' \in Seq(ProposalSet) /\ E!Open' \subseteq E!Open
         /\ DOMAIN eProposals \subseteq S => E!Open' = {}
<1>1. eProposals \in Seq(ProposalSet)
  BY DEF EvolutionTypes, ProposalSet
<1>2. \A p \in DOMAIN eProposals :
         /\ eProposals'[p] \in ProposalSet
         /\ p \in S => eProposals'[p].open = FALSE
         /\ p \notin S => eProposals'[p] = eProposals[p]
  <2> SUFFICES ASSUME NEW p \in DOMAIN eProposals
               PROVE  /\ eProposals'[p] \in ProposalSet
                      /\ p \in S => eProposals'[p].open = FALSE
                      /\ p \notin S => eProposals'[p] = eProposals[p]
    OBVIOUS
  <2>1. eProposals[p] \in ProposalSet
    BY <1>1
  <2>2. [eProposals[p] EXCEPT !.open = FALSE] \in ProposalSet
        /\ [eProposals[p] EXCEPT !.open = FALSE].open = FALSE
    BY <2>1 DEF ProposalSet
  <2> QED
    BY <2>1, <2>2
<1>3. DOMAIN eProposals = 1..Len(eProposals) /\ DOMAIN eProposals' = DOMAIN eProposals
      /\ Len(eProposals) \in Nat
  BY <1>1
<1>4. eProposals' \in Seq(ProposalSet)
  <2>1. eProposals' \in [1..Len(eProposals) -> ProposalSet]
    BY <1>2, <1>3
  <2> QED
    BY <1>3, <2>1
<1>5. \A p \in DOMAIN eProposals : eProposals'[p].open = TRUE => p \notin S /\ eProposals[p].open
  BY <1>2
<1> QED
  BY <1>2, <1>3, <1>4, <1>5 DEF E!Open

\* A step of the main thread that may change proposals.
LEMMA ProposalStep ==
  ASSUME EvolutionInv, eJob.at \notin {"link", "enqueue", "mark"},
         eJob' \in Jobs, eJob'.event = 0, eJob'.at \notin {"write", "link", "enqueue", "mark"},
         E!Fault \/ faults' = faults,
         eProposals' \in Seq(ProposalSet), ProposalInv',
         UNCHANGED <<eLatest, eSeen, eStudied, eEvidence, eCandidates, eTasks, eState, eAgain,
                     eApprovals>>
  PROVE  EvolutionInv'
<1>1. faults' \in 0..MaxFaults /\ faults' <= faults
  BY FaultIs, ChangesAssumption DEF EvolutionInv, EvolutionTypes
<1>2. EvolutionTypes'
  BY <1>1 DEF EvolutionInv, EvolutionTypes, ProposalSet
<1>3. EvidenceInv'
  BY <1>1, EvidenceFrame
<1>4. eJob.event = 0
  BY DEF EvolutionInv, EvolutionTypes, ApprovalInv, Jobs
<1>5. ApprovalInv'
  BY <1>1, <1>4, ApprovalFrame
<1> QED
  BY <1>2, <1>3, <1>5 DEF EvolutionInv

LEMMA CloseIs ==
  ASSUME EvolutionTypes, NEW c, E!CloseProposal(c)
  PROVE  /\ eProposals' \in Seq(ProposalSet) /\ E!Open' \subseteq E!Open
         /\ E!Fault \/ faults' = faults
<1>1. CASE E!Fault /\ UNCHANGED eProposals
  BY <1>1 DEF EvolutionTypes, ProposalSet, E!Open
<1>2. CASE /\ eProposals' = [p \in DOMAIN eProposals |->
                               IF eProposals[p].candidate = c THEN [eProposals[p] EXCEPT !.open = FALSE]
                               ELSE eProposals[p]]
           /\ UNCHANGED faults
  <2> DEFINE S == {p \in DOMAIN eProposals : eProposals[p].candidate = c}
  <2>1. eProposals' = [p \in DOMAIN eProposals |->
                         IF p \in S THEN [eProposals[p] EXCEPT !.open = FALSE] ELSE eProposals[p]]
    BY <1>2
  <2> HIDE DEF S
  <2> QED
    BY <1>2, <2>1, ClosedAre
<1> QED
  BY <1>1, <1>2 DEF E!CloseProposal

LEMMA RecordRemovedKeeps == ASSUME EvolutionInv, E!RecordRemoved PROVE EvolutionInv'
<1>1. /\ UNCHANGED <<eLatest, eSeen, eStudied, eEvidence, eCandidates, eTasks, eState, eAgain,
                     eApprovals>>
      /\ E!End /\ eJob.at = "removed"
  BY DEF E!RecordRemoved, E!Rest, E!At
<1>2. PICK c : E!CloseProposal(c)
  BY DEF E!RecordRemoved
<1>3. eJob' \in Jobs /\ eJob'.event = 0 /\ eJob'.at = "none"
  BY <1>1, EndIs
<1>4. /\ eProposals' \in Seq(ProposalSet) /\ E!Open' \subseteq E!Open
      /\ E!Fault \/ faults' = faults
  BY <1>2, CloseIs DEF EvolutionInv
<1>5. ProposalInv'
  BY <1>3, <1>4, ProposalFrame
<1> QED
  BY <1>1, <1>3, <1>4, <1>5, ProposalStep

LEMMA SupersedeKeeps == ASSUME EvolutionInv, E!Supersede PROVE EvolutionInv'
<1>1. /\ UNCHANGED <<eLatest, eSeen, eStudied, eEvidence, eCandidates, eTasks, eState, eAgain,
                     eApprovals>>
      /\ \/ /\ eProposals' = [p \in DOMAIN eProposals |-> [eProposals[p] EXCEPT !.open = FALSE]]
            /\ E!Go("propose") /\ UNCHANGED faults
         \/ E!End /\ E!Fault /\ UNCHANGED eProposals
  BY DEF E!Supersede, E!Rest
<1>2. eJob \in Jobs /\ eJob.at = "supersede" /\ "propose" \in JobSteps
  BY DEF EvolutionInv, EvolutionTypes, E!Supersede, E!At, JobSteps
<1>3. eJob.event = 0
  BY <1>2 DEF EvolutionInv, ApprovalInv, Jobs
<1>4. CASE E!End /\ E!Fault /\ UNCHANGED eProposals
  BY <1>1, <1>2, <1>4, EndIs, Quiet
<1>5. CASE /\ eProposals' = [p \in DOMAIN eProposals |-> [eProposals[p] EXCEPT !.open = FALSE]]
           /\ E!Go("propose") /\ UNCHANGED faults
  <2>1. eJob' \in Jobs /\ eJob'.event = 0 /\ eJob'.at = "propose"
    BY <1>2, <1>3, <1>5, GoIs
  <2>2. eProposals' = [p \in DOMAIN eProposals |->
                         IF p \in DOMAIN eProposals THEN [eProposals[p] EXCEPT !.open = FALSE]
                         ELSE eProposals[p]]
    BY <1>5
  <2>3. eProposals' \in Seq(ProposalSet) /\ E!Open' = {}
    BY <2>2, ClosedAre DEF EvolutionInv
  <2>4. ProposalInv'
    BY <2>3 DEF ProposalInv
  <2> QED
    BY <1>1, <1>2, <1>5, <2>1, <2>3, <2>4, ProposalStep
<1> QED
  BY <1>1, <1>4, <1>5

LEMMA ProposeEventKeeps == ASSUME EvolutionInv, E!ProposeEvent PROVE EvolutionInv'
<1>1. /\ UNCHANGED <<eLatest, eSeen, eStudied, eEvidence, eCandidates, eTasks, eState, eAgain,
                     eApprovals>>
      /\ E!Then("ack") \/ E!End
      /\ \/ /\ \E c \in eJob.top : eProposals' = Append(eProposals, [candidate |-> c, open |-> TRUE])
            /\ UNCHANGED faults
         \/ E!Fault /\ UNCHANGED eProposals
  BY DEF E!ProposeEvent, E!AfterProposal, E!Rest
<1>2. eJob \in Jobs /\ eJob.at = "propose" /\ "ack" \in JobSteps
  BY DEF EvolutionInv, EvolutionTypes, E!ProposeEvent, E!At, JobSteps
<1>3. eJob' \in Jobs /\ eJob'.event = 0 /\ eJob'.at \in {"ack", "none"}
  BY <1>1, <1>2, ThenIs, EndIs
<1>4. CASE E!Fault /\ UNCHANGED eProposals
  BY <1>1, <1>2, <1>3, <1>4, Quiet
<1>5. ASSUME NEW c \in eJob.top, eProposals' = Append(eProposals, [candidate |-> c, open |-> TRUE]),
             UNCHANGED faults
      PROVE  EvolutionInv'
  <2>1. eProposals \in Seq(ProposalSet) /\ [candidate |-> c, open |-> TRUE] \in ProposalSet
    BY <1>2 DEF EvolutionInv, EvolutionTypes, ProposalSet, Jobs
  <2> DEFINE new == [candidate |-> c, open |-> TRUE]
  <2> HIDE DEF new
  <2>2. /\ eProposals' = Append(eProposals, new) /\ new \in ProposalSet
    BY <1>5, <2>1 DEF new
  <2>3. /\ eProposals' \in Seq(ProposalSet)
        /\ DOMAIN eProposals' = DOMAIN eProposals \cup {Len(eProposals) + 1}
        /\ \A p \in DOMAIN eProposals : eProposals'[p] = eProposals[p]
    BY <2>1, <2>2
  <2>4. E!Open = {}
    BY <1>2 DEF EvolutionInv, ProposalInv
  <2>5. \A p \in E!Open' : p = Len(eProposals) + 1
    BY <2>3, <2>4 DEF E!Open
  <2>6. ProposalInv'
    BY <1>3, <2>5 DEF ProposalInv
  <2> QED
    BY <1>1, <1>2, <1>3, <1>5, <2>3, <2>6, ProposalStep
<1> QED
  BY <1>1, <1>4, <1>5

-----------------------------------------------------------------------------
(* Approvals.                                                              *)

\* What ApprovalInv says of the tasks of candidate c.
TasksFit(c) ==
    /\ 2 * Cardinality(Own(c)) <= Used + Slack(c)
    /\ eCandidates[c] = "approved" => Own(c) # {}

LEMMA SlackIs == \A c : Slack(c) \in {0, 1, 2}
  BY DEF Slack

\* The tasks stay; what a failure or a restart leaves behind is counted.
LEMMA TasksStay ==
  ASSUME EvolutionInv, NEW c \in DOMAIN eCandidates, eTasks' = eTasks,
         faults' \in 0..MaxFaults,
         Used + Slack(c) <= Used' + Slack(c)',
         eCandidates'[c] = "approved" => Own(c) # {}
  PROVE  TasksFit(c)'
<1>1. Own(c)' = Own(c) /\ Cardinality(Own(c)) \in Nat
  BY OwnIsFinite DEF Own, EvolutionInv
<1>2. 2 * Cardinality(Own(c)) <= Used + Slack(c)
  BY DEF EvolutionInv, ApprovalInv
<1>3. /\ Used \in Nat /\ Used' \in Nat /\ Slack(c) \in Nat /\ Slack(c)' \in Nat
  <2>1. Slack(c) \in Nat
    BY SlackIs
  <2>2. Slack(c)' \in Nat
    BY DEF Slack
  <2> QED
    BY <2>1, <2>2, UsedGrows DEF EvolutionInv
<1> QED
  BY <1>1, <1>2, <1>3 DEF TasksFit

\* The task of an event that is not being asked for is nobody's.
LEMMA NothingAsked ==
  ASSUME EvolutionInv, NEW c \in DOMAIN eCandidates, \A e \in 1..MaxApprovals : ~Asked(c, e),
         eCandidates[c] # "approved"
  PROVE  Slack(c) = 0
<1>1. ~(eJob.at = "mark" /\ eJob.top = {c})
  <2>1. eJob.event \in 0..MaxApprovals
    BY DEF EvolutionInv, EvolutionTypes, Jobs
  <2>2. eJob.at = "mark" => eJob.event \in 1..MaxApprovals
    BY <2>1, InputsAssumption DEF EvolutionInv, ApprovalInv
  <2> QED
    BY <2>2 DEF Asked
<1> QED
  BY <1>1 DEF Slack

LEMMA ApproveKeeps ==
  ASSUME EvolutionInv, NEW c \in DOMAIN eCandidates, NEW event \in 1..MaxApprovals,
         E!Approve(c, event)
  PROVE  EvolutionInv'
<1>1. /\ UNCHANGED <<eLatest, eSeen, eStudied, eEvidence, eCandidates, eTasks, eState>>
      /\ eJob.at = "none" /\ eJob \in Jobs /\ eJob.event = 0
  BY DEF E!Approve, E!Idle, EvolutionInv, EvolutionTypes, ApprovalInv, Jobs
<1>2. \/ /\ eAgain = {} /\ event = eApprovals + 1 /\ eApprovals' = event /\ eAgain' = {}
      \/ <<c, event>> \in eAgain /\ eAgain' = {} /\ eApprovals' = eApprovals
  BY DEF E!Approve
<1>3. \/ /\ c \in E!Actionable
         /\ eJob' = [E!NoJob EXCEPT !.at = "enqueue", !.top = {c}, !.event = event]
         /\ E!CloseProposal(c)
      \/ c \notin E!Actionable /\ UNCHANGED <<eJob, eProposals, faults>>
  BY DEF E!Approve
<1>4. c \in ECands /\ eApprovals \in 0..MaxApprovals /\ MaxApprovals \in Nat
  BY InputsAssumption DEF EvolutionInv, EvolutionTypes
<1>5. /\ \A t \in DOMAIN eTasks : eTasks[t].event \in 1..eApprovals
      /\ \A x \in ECands, e \in 1..MaxApprovals :
            Asked(x, e) => /\ x \in DOMAIN eCandidates /\ eCandidates[x] = "candidate" /\ e <= eApprovals
                           /\ \A t \in DOMAIN eTasks : eTasks[t].event = e => eTasks[t].candidate = x
      /\ \A p, q \in eAgain : p = q
      /\ \A x \in DOMAIN eCandidates : eCandidates[x] = "approved" => Own(x) # {}
      /\ eAgain \subseteq ECands \X (1..MaxApprovals)
  BY DEF EvolutionInv, EvolutionTypes, ApprovalInv
<1>6. <<c, event>> \in eAgain => c \in E!Actionable /\ event <= eApprovals
  BY <1>4, <1>5 DEF Asked, E!Actionable
<1>7. eApprovals <= eApprovals' /\ eApprovals' \in 0..MaxApprovals /\ event <= eApprovals'
  BY <1>2, <1>4, <1>6
<1>8. /\ eJob' \in Jobs
      /\ \/ /\ eJob'.at = "enqueue" /\ eJob'.top = {c} /\ eJob'.event = event
            /\ c \in E!Actionable
         \/ eJob'.at = "none" /\ eJob'.event = 0 /\ eAgain = {}
  <2>1. CASE eJob' = [E!NoJob EXCEPT !.at = "enqueue", !.top = {c}, !.event = event]
    <3>1. {c} \in SUBSET ECands /\ event \in 0..MaxApprovals /\ "enqueue" \in JobSteps
      BY <1>4 DEF JobSteps
    <3>2. eJob' \in Jobs
      BY <2>1, <3>1, NoJobIs DEF Jobs
    <3>3. eJob'.at = "enqueue" /\ eJob'.top = {c} /\ eJob'.event = event
      BY <2>1, NoJobIs DEF Jobs
    <3>4. c \in E!Actionable
      BY <1>1, <1>3, <2>1, <3>3
    <3> QED
      BY <3>2, <3>3, <3>4
  <2>2. CASE c \notin E!Actionable /\ UNCHANGED <<eJob, eProposals, faults>>
    BY <1>1, <1>2, <1>6, <2>2
  <2> QED
    BY <1>3, <2>1, <2>2
<1>9. /\ eProposals' \in Seq(ProposalSet) /\ E!Open' \subseteq E!Open
      /\ faults' \in 0..MaxFaults /\ faults' <= faults
  <2>1. CASE E!CloseProposal(c)
    <3>1. /\ eProposals' \in Seq(ProposalSet) /\ E!Open' \subseteq E!Open
          /\ E!Fault \/ faults' = faults
      BY <2>1, CloseIs DEF EvolutionInv
    <3>2. PICK n \in Nat : n = MaxFaults
      BY ChangesAssumption
    <3>3. PICK f \in 0..n : f = faults
      BY <3>2 DEF EvolutionInv, EvolutionTypes
    <3>4. CASE E!Fault
      BY <3>1, <3>2, <3>3, <3>4, FaultIs DEF EvolutionInv
    <3>5. CASE faults' = faults
      BY <3>1, <3>2, <3>3, <3>5
    <3> QED
      BY <3>1, <3>4, <3>5
  <2>2. CASE UNCHANGED <<eProposals, faults>>
    BY <2>2, ChangesAssumption DEF EvolutionInv, EvolutionTypes, ProposalSet, E!Open
  <2> QED
    BY <1>3, <2>1, <2>2
<1>10. EvolutionTypes'
  <2>1. eAgain' = {}
    BY <1>2
  <2> QED
    BY <1>1, <1>7, <1>8, <1>9, <2>1 DEF EvolutionInv, EvolutionTypes, ProposalSet
<1>11. EvidenceInv'
  BY <1>1, <1>8, <1>9, EvidenceFrame
<1>12. ProposalInv'
  BY <1>8, <1>9, ProposalFrame
<1>13. \A x, e : Asked(x, e)' <=> eJob'.at = "enqueue" /\ x = c /\ e = event
  BY <1>2, <1>8 DEF Asked
<1>14. \A x \in DOMAIN eCandidates : TasksFit(x)'
  <2> SUFFICES ASSUME NEW x \in DOMAIN eCandidates PROVE TasksFit(x)'
    OBVIOUS
  <2>1. \A e : HasTask(e)' <=> HasTask(e)
    BY <1>1 DEF HasTask
  <2>2. Slack(x) <= Slack(x)'
    <3>1. CASE eCandidates[x] = "approved"
      BY <1>1, <3>1 DEF Slack
    <3>2. CASE eCandidates[x] # "approved" /\ \A e \in 1..MaxApprovals : ~Asked(x, e)
      <4>1. Slack(x) = 0 /\ Slack(x)' \in Nat
        BY <3>2, NothingAsked DEF Slack
      <4> QED
        BY <4>1
    <3>3. ASSUME NEW e \in 1..MaxApprovals, Asked(x, e), eCandidates[x] # "approved"
          PROVE  Slack(x) <= Slack(x)'
      <4>1. <<x, e>> \in eAgain
        BY <1>1, <3>3 DEF Asked
      <4>2. <<x, e>> = <<c, event>> /\ eJob'.at = "enqueue"
        BY <1>2, <1>5, <1>8, <4>1
      <4>3. x = c /\ e = event
        BY <4>2
      <4>4. \A f \in 1..MaxApprovals : Asked(x, f) => f = event
        BY <1>1, <1>5, <4>1, <4>3 DEF Asked
      <4>5. Asked(x, event)' /\ event \in 1..MaxApprovals
        BY <1>13, <4>2, <4>3
      <4>6. Slack(x) # 0 => Slack(x) = 1 /\ HasTask(event)
        BY <1>1, <3>3, <4>4 DEF Slack
      <4>7. HasTask(event) => Slack(x)' \in {1, 2}
        BY <2>1, <4>5 DEF Slack
      <4>8. Slack(x)' \in Nat /\ Slack(x) \in Nat
        BY DEF Slack
      <4> QED
        BY <4>6, <4>7, <4>8
    <3> QED
      BY <3>1, <3>2, <3>3
  <2>3. /\ Used <= Used' /\ Used \in Nat /\ Used' \in Nat /\ Slack(x) \in Nat /\ Slack(x)' \in Nat
    <3>1. Slack(x) \in Nat /\ Slack(x)' \in Nat
      BY DEF Slack
    <3> QED
      BY <1>9, <3>1, UsedGrows DEF EvolutionInv
  <2> QED
    BY <1>1, <1>5, <1>9, <2>2, <2>3, TasksStay
<1>15. \A t \in DOMAIN eTasks : eTasks[t].event = event => eTasks[t].candidate = c
  <2>1. CASE <<c, event>> \in eAgain
    BY <1>4, <1>5, <2>1 DEF Asked
  <2>2. CASE event = eApprovals + 1
    BY <1>4, <1>5, <2>2
  <2> QED
    BY <1>2, <2>1, <2>2
<1>16. ApprovalInv'
  <2>1. \A t \in DOMAIN eTasks' : eTasks'[t].candidate \in DOMAIN eCandidates' /\ eTasks'[t].event \in 1..eApprovals'
    BY <1>1, <1>4, <1>5, <1>7 DEF EvolutionInv, ApprovalInv
  <2>2. ASSUME NEW x \in ECands, NEW e \in 1..MaxApprovals, Asked(x, e)'
        PROVE  /\ x \in DOMAIN eCandidates' /\ eCandidates'[x] = "candidate" /\ e <= eApprovals'
               /\ \A t \in DOMAIN eTasks' : eTasks'[t].event = e => eTasks'[t].candidate = x
    <3>1. eJob'.at = "enqueue" /\ x = c /\ e = event
      BY <1>13, <2>2
    <3>2. eCandidates[c] = "candidate"
      BY <1>8, <3>1 DEF E!Actionable
    <3> QED
      BY <1>1, <1>7, <1>15, <3>1, <3>2
  <2>3. eJob'.event > 0 <=> eJob'.at \in {"enqueue", "mark"}
    BY <1>8
  <2>4. eAgain' = {} /\ (eJob'.event > 0 => \E x \in ECands : eJob'.top = {x})
    BY <1>2, <1>4, <1>8
  <2>5. eJob'.at # "mark"
    BY <1>8
  <2>6. \A x \in DOMAIN eCandidates' :
          /\ 2 * Cardinality(Own(x)') <= Used' + Slack(x)'
          /\ eCandidates'[x] = "approved" => Own(x)' # {}
    BY <1>1, <1>14 DEF TasksFit
  <2> QED
    BY <2>1, <2>2, <2>3, <2>4, <2>5, <2>6 DEF ApprovalInv
<1> QED
  BY <1>1, <1>10, <1>11, <1>12, <1>16 DEF EvolutionInv

\* The approval at hand: its candidate waits for nothing else.
LEMMA ApprovingIs ==
  ASSUME EvolutionInv, eJob.at \in {"enqueue", "mark"}
  PROVE  /\ eJob \in Jobs /\ eJob.event \in 1..MaxApprovals /\ eJob.event <= eApprovals /\ eAgain = {}
         /\ \E c \in ECands :
              /\ eJob.top = {c} /\ c \in DOMAIN eCandidates /\ eCandidates[c] = "candidate"
              /\ \A x, e : Asked(x, e) <=> x = c /\ e = eJob.event
              /\ \A t \in DOMAIN eTasks : eTasks[t].event = eJob.event => eTasks[t].candidate = c
<1>1. eJob \in Jobs /\ eJob.event > 0 /\ eAgain = {} /\ eJob.event \in 0..MaxApprovals
  BY DEF EvolutionInv, EvolutionTypes, ApprovalInv, Jobs
<1>2. eJob.event \in 1..MaxApprovals
  BY <1>1, InputsAssumption
<1>3. PICK c \in ECands : eJob.top = {c}
  BY <1>1 DEF EvolutionInv, ApprovalInv
<1>4. \A x, e : Asked(x, e) <=> x = c /\ e = eJob.event
  BY <1>1, <1>3 DEF Asked
<1>5. /\ c \in DOMAIN eCandidates /\ eCandidates[c] = "candidate" /\ eJob.event <= eApprovals
      /\ \A t \in DOMAIN eTasks : eTasks[t].event = eJob.event => eTasks[t].candidate = c
  <2>1. Asked(c, eJob.event)
    BY <1>4
  <2> QED
    BY <1>2, <2>1 DEF EvolutionInv, ApprovalInv
<1> QED
  BY <1>1, <1>2, <1>3, <1>4, <1>5

\* A step of an approval changes nothing but tasks, candidates and what is to come again.
LEMMA ApprovalStep ==
  ASSUME EvolutionInv, eJob.at # "link", eJob' \in Jobs,
         eJob'.at \notin {"write", "link", "propose"},
         faults' \in 0..MaxFaults, faults' <= faults,
         eTasks' \in Seq([candidate : ECands, event : Nat]),
         eCandidates' \in [DOMAIN eCandidates -> Statuses],
         eAgain' \subseteq ECands \X (1..MaxApprovals),
         ApprovalInv',
         UNCHANGED <<eLatest, eSeen, eStudied, eEvidence, eProposals, eState, eApprovals>>
  PROVE  EvolutionInv'
<1>1. DOMAIN eCandidates' = DOMAIN eCandidates
  OBVIOUS
<1>2. EvolutionTypes'
  BY <1>1 DEF EvolutionInv, EvolutionTypes
<1>3. EvidenceInv'
  BY <1>1, EvidenceFrame
<1>4. ProposalInv'
  BY ProposalFrame DEF E!Open
<1> QED
  BY <1>2, <1>3, <1>4 DEF EvolutionInv

\* An approval ends with a failure, or is interrupted.
LEMMA GiveUpKeeps ==
  ASSUME EvolutionInv, eJob.at \in {"enqueue", "mark"}, E!End, E!Fault,
         \/ eJob.at = "enqueue" /\ eAgain' = eAgain
         \/ eAgain' = eAgain \cup {p \in eJob.top \X {eJob.event} : p[2] > 0},
         UNCHANGED <<eLatest, eSeen, eStudied, eEvidence, eCandidates, eProposals, eTasks, eState,
                     eApprovals>>
  PROVE  EvolutionInv'
<1>1. eJob' \in Jobs /\ eJob'.at = "none" /\ eJob'.event = 0
  BY EndIs
<1>2. faults' \in 0..MaxFaults /\ faults' = faults - 1 /\ faults' <= faults
  BY FaultIs DEF EvolutionInv
<1>3. Used' = Used + 1 /\ Used \in Nat /\ Used' \in Nat
  BY <1>2, UsedGrows DEF EvolutionInv
<1>0. PICK event \in 1..MaxApprovals : event = eJob.event
  BY ApprovingIs
<1>4. /\ event \in 1..MaxApprovals /\ event <= eApprovals /\ eAgain = {}
      /\ \E c \in ECands :
           /\ eJob.top = {c} /\ c \in DOMAIN eCandidates /\ eCandidates[c] = "candidate"
           /\ \A x, e : Asked(x, e) <=> x = c /\ e = event
           /\ \A t \in DOMAIN eTasks : eTasks[t].event = event => eTasks[t].candidate = c
  BY <1>0, ApprovingIs
<1>5. PICK c \in ECands :
           /\ eJob.top = {c} /\ c \in DOMAIN eCandidates /\ eCandidates[c] = "candidate"
           /\ \A x, e : Asked(x, e) <=> x = c /\ e = event
           /\ \A t \in DOMAIN eTasks : eTasks[t].event = event => eTasks[t].candidate = c
  BY <1>4
<1>6. eAgain' = {<<c, event>>} \/ (eAgain' = {} /\ eJob.at = "enqueue")
  <2>1. CASE eAgain' = eAgain \cup {p \in eJob.top \X {event} : p[2] > 0}
    <3>1. eAgain' = {p \in {c} \X {event} : p[2] > 0} /\ event > 0
      BY <1>4, <1>5, <2>1
    <3> QED
      BY <3>1
  <2>2. CASE eJob.at = "enqueue" /\ eAgain' = eAgain
    BY <1>4, <2>2
  <2> QED
    BY <1>0, <2>1, <2>2
<1>7. eAgain' \subseteq ECands \X (1..MaxApprovals) /\ \A p, q \in eAgain' : p = q
  BY <1>4, <1>6
<1>8. \A x, e : Asked(x, e)' => x = c /\ e = event
  BY <1>1, <1>6 DEF Asked
<1>9. \A x : Own(x)' = Own(x) /\ \A e : HasTask(e)' <=> HasTask(e)
  BY DEF Own, HasTask
<1>10. ASSUME NEW x \in DOMAIN eCandidates PROVE TasksFit(x)'
  <2>1. Slack(x) <= Slack(x)' + 1
    <3>0. Slack(x) \in {0, 1, 2} /\ Slack(x)' \in {0, 1, 2}
      BY DEF Slack
    <3>1. CASE eCandidates[x] = "approved"
      BY <3>1, <3>0 DEF Slack
    <3>2. CASE x # c /\ eCandidates[x] # "approved"
      BY <1>5, <3>0, <3>2 DEF Slack
    <3>3. CASE x = c /\ eJob.at = "mark"
      <4>1. Asked(c, event)'
        <5>1. <<c, event>> \in eAgain'
          BY <1>6, <3>3
        <5> QED
          BY <5>1 DEF Asked
      <4>3. HasTask(event)
        BY <1>0, <3>3 DEF EvolutionInv, ApprovalInv
      <4>2. Slack(c)' \in {1, 2}
        BY <1>4, <1>9, <4>1, <4>3 DEF Slack
      <4> QED
        BY <3>0, <3>3, <4>2
    <3>4. CASE x = c /\ eJob.at # "mark"
      <4>1. Slack(x) \in {0, 1}
        BY <1>5, <3>4 DEF Slack
      <4> QED
        BY <3>0, <4>1
    <3> QED
      BY <3>1, <3>2, <3>3, <3>4
  <2>2. Used + Slack(x) <= Used' + Slack(x)'
    <3>1. Slack(x) \in Nat /\ Slack(x)' \in Nat
      BY DEF Slack
    <3> QED
      BY <1>3, <2>1, <3>1
  <2>3. eCandidates'[x] = "approved" => Own(x) # {}
    BY DEF EvolutionInv, ApprovalInv
  <2> QED
    BY <1>2, <2>2, <2>3, TasksStay
<1>11. ApprovalInv'
  <2>1. \A t \in DOMAIN eTasks' : eTasks'[t].candidate \in DOMAIN eCandidates' /\ eTasks'[t].event \in 1..eApprovals'
    BY DEF EvolutionInv, ApprovalInv
  <2>2. ASSUME NEW x \in ECands, NEW e \in 1..MaxApprovals, Asked(x, e)'
        PROVE  /\ x \in DOMAIN eCandidates' /\ eCandidates'[x] = "candidate" /\ e <= eApprovals'
               /\ \A t \in DOMAIN eTasks' : eTasks'[t].event = e => eTasks'[t].candidate = x
    BY <1>4, <1>5, <1>8, <2>2
  <2>3. \A x \in DOMAIN eCandidates' :
          /\ 2 * Cardinality(Own(x)') <= Used' + Slack(x)'
          /\ eCandidates'[x] = "approved" => Own(x)' # {}
    BY <1>10 DEF TasksFit
  <2> QED
    BY <1>1, <1>7, <2>1, <2>2, <2>3 DEF ApprovalInv
<1>12. /\ eTasks' \in Seq([candidate : ECands, event : Nat])
       /\ eCandidates' \in [DOMAIN eCandidates -> Statuses]
  BY DEF EvolutionInv, EvolutionTypes
<1> QED
  BY <1>1, <1>2, <1>7, <1>11, <1>12, ApprovalStep

LEMMA RestartKeeps == ASSUME EvolutionInv, E!Restart PROVE EvolutionInv'
<1>1. /\ E!Fault /\ E!End
      /\ eAgain' = eAgain \cup {p \in eJob.top \X {eJob.event} : p[2] > 0}
      /\ UNCHANGED <<eLatest, eSeen, eStudied, eEvidence, eCandidates, eProposals, eTasks, eState,
                     eApprovals>>
  BY DEF E!Restart, E!Durable
<1>2. CASE eJob.at \in {"enqueue", "mark"}
  BY <1>1, <1>2, GiveUpKeeps
<1>3. CASE eJob.at \notin {"enqueue", "mark"}
  <2>1. eJob.event = 0
    BY <1>3 DEF EvolutionInv, EvolutionTypes, ApprovalInv, Jobs
  <2>2. eAgain' = eAgain
    BY <1>1, <2>1
  <2> QED
    BY <1>1, <1>3, <2>2, EndIs, Quiet
<1> QED
  BY <1>2, <1>3

LEMMA RemoveKeeps ==
  ASSUME EvolutionInv, NEW c, E!Remove(c)
  PROVE  EvolutionInv'
<1>1. /\ eJob.at = "none" /\ eAgain = {} /\ c \in DOMAIN eCandidates /\ eCandidates[c] = "candidate"
      /\ eCandidates' = [eCandidates EXCEPT ![c] = "removed"]
      /\ eJob' = [E!NoJob EXCEPT !.at = "removed", !.top = {c}]
      /\ UNCHANGED <<eLatest, eSeen, eStudied, eEvidence, eProposals, eTasks, eState, eAgain,
                     eApprovals, faults>>
  BY DEF E!Remove, E!Idle, E!Actionable, E!Rest
<1>2. eJob' \in Jobs /\ eJob'.event = 0 /\ eJob'.at = "removed"
  <2>1. {c} \in SUBSET ECands /\ "removed" \in JobSteps
    BY <1>1 DEF JobSteps, EvolutionInv, EvolutionTypes
  <2> QED
    BY <1>1, <2>1, NoJobIs DEF Jobs
<1>3. /\ eCandidates' \in [DOMAIN eCandidates -> Statuses]
      /\ eCandidates'[c] = "removed"
      /\ \A x \in DOMAIN eCandidates : x # c => eCandidates'[x] = eCandidates[x]
      /\ DOMAIN eCandidates' = DOMAIN eCandidates
  BY <1>1 DEF EvolutionInv, EvolutionTypes, Statuses
<1>4. (\A x, e : ~Asked(x, e)) /\ (\A x, e : ~Asked(x, e)')
  BY <1>1, <1>2 DEF Asked
<1>5. faults' \in 0..MaxFaults /\ faults' <= faults /\ Used' = Used /\ Used \in Nat
  <2>1. faults' = faults
    BY <1>1
  <2> QED
    BY <2>1, ChangesAssumption DEF Used, EvolutionInv, EvolutionTypes
<1>6. ASSUME NEW x \in DOMAIN eCandidates PROVE TasksFit(x)'
  <2>1. /\ Slack(x) <= Slack(x)'
        /\ eCandidates'[x] = "approved" => eCandidates[x] = "approved"
    <3>1. CASE x = c
      <4>1. Slack(x) = 0 /\ Slack(x)' \in Nat
        BY <1>1, <1>4, <3>1, NothingAsked DEF Slack
      <4> QED
        BY <1>3, <3>1, <4>1
    <3>2. CASE x # c
      <4>1. Slack(x) = Slack(x)' /\ Slack(x) \in Nat
        BY <1>1, <1>2, <1>3, <1>4, <3>2 DEF Slack
      <4> QED
        BY <1>3, <3>2, <4>1
    <3> QED
      BY <3>1, <3>2
  <2>2. eCandidates'[x] = "approved" => Own(x) # {}
    BY <2>1 DEF EvolutionInv, ApprovalInv
  <2>3. Slack(x) \in Nat /\ Slack(x)' \in Nat
    BY DEF Slack
  <2>4. Used + Slack(x) <= Used' + Slack(x)'
    BY <1>5, <2>1, <2>3
  <2>5. eTasks' = eTasks
    BY <1>1
  <2> QED
    BY <1>5, <2>2, <2>4, <2>5, TasksStay
<1>7. ApprovalInv'
  <2>1. \A t \in DOMAIN eTasks' : eTasks'[t].candidate \in DOMAIN eCandidates' /\ eTasks'[t].event \in 1..eApprovals'
    BY <1>1, <1>3 DEF EvolutionInv, ApprovalInv
  <2>2. \A x \in DOMAIN eCandidates' :
          /\ 2 * Cardinality(Own(x)') <= Used' + Slack(x)'
          /\ eCandidates'[x] = "approved" => Own(x)' # {}
    <3>1. \A x : Own(x)' = Own(x)
      BY <1>1 DEF Own
    <3> QED
      BY <1>3, <1>6, <3>1 DEF TasksFit
  <2> QED
    BY <1>1, <1>2, <1>4, <2>1, <2>2 DEF ApprovalInv
<1>8. /\ eTasks' \in Seq([candidate : ECands, event : Nat])
      /\ eAgain' \subseteq ECands \X (1..MaxApprovals)
  BY <1>1 DEF EvolutionInv, EvolutionTypes
<1> QED
  BY <1>1, <1>2, <1>3, <1>5, <1>7, <1>8, ApprovalStep

\* The task of an approval is queued: one that its event has found already is kept.
LEMMA EnqueueKeeps == ASSUME EvolutionInv, E!EnqueueApproved PROVE EvolutionInv'
<1>1. /\ eJob.at = "enqueue"
      /\ UNCHANGED <<eLatest, eSeen, eStudied, eEvidence, eCandidates, eProposals, eState, eAgain,
                     eApprovals>>
      /\ \/ /\ \E c \in eJob.top :
                 eTasks' = IF \E t \in DOMAIN eTasks : eTasks[t].event = eJob.event THEN eTasks
                           ELSE Append(eTasks, [candidate |-> c, event |-> eJob.event])
            /\ E!Go("mark") /\ faults' = faults
         \/ E!End /\ E!Fault /\ UNCHANGED eTasks
  BY DEF E!EnqueueApproved, E!At, E!Rest
<1>2. CASE E!End /\ E!Fault /\ UNCHANGED eTasks
  BY <1>1, <1>2, GiveUpKeeps
<1>3. CASE /\ \E c \in eJob.top :
                 eTasks' = IF \E t \in DOMAIN eTasks : eTasks[t].event = eJob.event THEN eTasks
                           ELSE Append(eTasks, [candidate |-> c, event |-> eJob.event])
           /\ E!Go("mark") /\ faults' = faults
  <2>1. /\ eJob \in Jobs /\ eJob.event \in 1..MaxApprovals /\ eJob.event <= eApprovals
        /\ eAgain = {} /\ eApprovals \in Nat
        /\ \E c \in ECands :
             /\ eJob.top = {c} /\ c \in DOMAIN eCandidates /\ eCandidates[c] = "candidate"
             /\ \A x, e : Asked(x, e) <=> x = c /\ e = eJob.event
             /\ \A t \in DOMAIN eTasks : eTasks[t].event = eJob.event => eTasks[t].candidate = c
    <3>1. eApprovals \in Nat
      BY InputsAssumption DEF EvolutionInv, EvolutionTypes
    <3> QED
      BY <1>1, <3>1, ApprovingIs
  <2>2. PICK c \in ECands :
             /\ eJob.top = {c} /\ c \in DOMAIN eCandidates /\ eCandidates[c] = "candidate"
             /\ \A x, e : Asked(x, e) <=> x = c /\ e = eJob.event
             /\ \A t \in DOMAIN eTasks : eTasks[t].event = eJob.event => eTasks[t].candidate = c
    BY <2>1
  <2>3. PICK event \in 1..MaxApprovals : event = eJob.event
    BY <2>1
  <2>4. /\ eJob' \in Jobs /\ eJob'.at = "mark" /\ eJob'.event = event /\ eJob'.top = {c}
    BY <1>3, <2>1, <2>2, <2>3, GoIs DEF JobSteps
  <2>5. \/ HasTask(event) /\ eTasks' = eTasks
        \/ ~HasTask(event) /\ eTasks' = Append(eTasks, [candidate |-> c, event |-> event])
    BY <1>3, <2>2, <2>3 DEF HasTask
  <2>6. Used' = Used /\ Used \in Nat /\ faults' \in 0..MaxFaults /\ faults' <= faults
    <3>1. faults' = faults
      BY <1>3
    <3> QED
      BY <3>1, ChangesAssumption DEF Used, EvolutionInv, EvolutionTypes
  <2>7. \A x, e : Asked(x, e)' <=> x = c /\ e = event
    BY <1>1, <2>1, <2>4 DEF Asked
  <2>8. /\ eTasks' \in Seq([candidate : ECands, event : Nat])
        /\ \A t \in DOMAIN eTasks : t \in DOMAIN eTasks' /\ eTasks'[t] = eTasks[t]
        /\ \A t \in DOMAIN eTasks' : \/ t \in DOMAIN eTasks /\ eTasks'[t] = eTasks[t]
                                     \/ /\ ~HasTask(event) /\ t = Len(eTasks) + 1
                                        /\ eTasks'[t].candidate = c /\ eTasks'[t].event = event
        /\ ~HasTask(event) => DOMAIN eTasks' = DOMAIN eTasks \cup {Len(eTasks) + 1}
        /\ Len(eTasks) + 1 \notin DOMAIN eTasks
        /\ \E t \in DOMAIN eTasks' : eTasks'[t].event = event
    <3> DEFINE new == [candidate |-> c, event |-> event]
    <3>1. new \in [candidate : ECands, event : Nat] /\ new.candidate = c /\ new.event = event
      OBVIOUS
    <3>2. eTasks \in Seq([candidate : ECands, event : Nat])
      BY DEF EvolutionInv, EvolutionTypes
    <3> HIDE DEF new
    <3>3. CASE HasTask(event) /\ eTasks' = eTasks
      BY <3>2, <3>3 DEF HasTask
    <3>4. CASE ~HasTask(event) /\ eTasks' = Append(eTasks, new)
      <4>1. /\ eTasks' \in Seq([candidate : ECands, event : Nat])
            /\ DOMAIN eTasks' = DOMAIN eTasks \cup {Len(eTasks) + 1}
            /\ Len(eTasks) + 1 \notin DOMAIN eTasks
            /\ eTasks'[Len(eTasks) + 1] = new
            /\ \A t \in DOMAIN eTasks : eTasks'[t] = eTasks[t]
        BY <3>1, <3>2, <3>4
      <4> QED
        BY <3>1, <3>4, <4>1
    <3> QED
      BY <2>5, <3>3, <3>4 DEF new
  <2>9. ASSUME NEW x \in DOMAIN eCandidates PROVE TasksFit(x)'
    <3>1. /\ 2 * Cardinality(Own(x)) <= Used + Slack(x) /\ IsFiniteSet(Own(x))
          /\ Cardinality(Own(x)) \in Nat
          /\ eCandidates[x] = "approved" => Own(x) # {}
      BY OwnIsFinite DEF EvolutionInv, ApprovalInv
    <3>2. Slack(x) \in {0, 1, 2} /\ Slack(x)' \in {0, 1, 2}
      BY DEF Slack
    <3>3. CASE x # c
      <4>1. Own(x)' = Own(x)
        BY <2>8, <3>3 DEF Own
      <4>2. Slack(x)' = Slack(x)
        BY <1>1, <2>2, <2>4, <2>7, <3>3 DEF Slack
      <4> QED
        BY <1>1, <2>6, <3>1, <3>2, <4>1, <4>2 DEF TasksFit
    <3>4. CASE x = c
      <4>1. Slack(x)' = 2 /\ eCandidates'[x] # "approved"
        BY <1>1, <2>2, <2>4, <3>4 DEF Slack
      <4>2. CASE HasTask(event)
        <5>1. Own(x)' = Own(x)
          BY <2>8, <4>2 DEF Own
        <5> QED
          BY <2>6, <3>1, <3>2, <4>1, <5>1 DEF TasksFit
      <4>3. CASE ~HasTask(event)
        <5>1. Slack(x) = 0
          BY <1>1, <2>2, <2>3, <3>4, <4>3 DEF Slack
        <5>2. Own(x)' = Own(x) \cup {Len(eTasks) + 1} /\ Len(eTasks) + 1 \notin Own(x)
          BY <2>8, <3>4, <4>3 DEF Own
        <5>3. Cardinality(Own(x) \cup {Len(eTasks) + 1}) = Cardinality(Own(x)) + 1
          BY <3>1, <5>2, FS_AddElement
        <5> QED
          <6>1. Cardinality(Own(x)') = Cardinality(Own(x)) + 1
            BY <5>2, <5>3
          <6> QED
            BY <2>6, <3>1, <3>2, <4>1, <5>1, <5>2, <6>1 DEF TasksFit
      <4> QED
        BY <4>2, <4>3
    <3> QED
      BY <3>3, <3>4
  <2>10. ApprovalInv'
    <3>1. \A t \in DOMAIN eTasks' : eTasks'[t].candidate \in DOMAIN eCandidates' /\ eTasks'[t].event \in 1..eApprovals'
      <4>1. event \in 1..eApprovals
        BY <2>1, <2>3
      <4> QED
        BY <1>1, <2>2, <2>8, <4>1 DEF EvolutionInv, ApprovalInv
    <3>2. ASSUME NEW x \in ECands, NEW e \in 1..MaxApprovals, Asked(x, e)'
          PROVE  /\ x \in DOMAIN eCandidates' /\ eCandidates'[x] = "candidate" /\ e <= eApprovals'
                 /\ \A t \in DOMAIN eTasks' : eTasks'[t].event = e => eTasks'[t].candidate = x
      <4>1. x = c /\ e = event
        BY <2>7, <3>2
      <4> QED
        BY <1>1, <2>1, <2>2, <2>3, <2>8, <4>1
    <3>3. \A x \in DOMAIN eCandidates' :
            /\ 2 * Cardinality(Own(x)') <= Used' + Slack(x)'
            /\ eCandidates'[x] = "approved" => Own(x)' # {}
      BY <1>1, <2>9 DEF TasksFit
    <3>4. HasTask(event)'
      BY <2>8 DEF HasTask
    <3>5. HasTask(eJob.event)'
      BY <2>4, <3>4
    <3>6. eJob'.event > 0 /\ eAgain' = {} /\ \E x \in ECands : eJob'.top = {x}
      BY <1>1, <2>1, <2>4
    <3> QED
      BY <2>4, <3>1, <3>2, <3>3, <3>5, <3>6 DEF ApprovalInv
  <2>11. /\ eCandidates' \in [DOMAIN eCandidates -> Statuses]
         /\ eAgain' \subseteq ECands \X (1..MaxApprovals)
    BY <1>1 DEF EvolutionInv, EvolutionTypes
  <2> QED
    BY <1>1, <2>4, <2>6, <2>8, <2>10, <2>11, ApprovalStep
<1> QED
  BY <1>1, <1>2, <1>3

LEMMA MarkKeeps == ASSUME EvolutionInv, E!MarkApproved PROVE EvolutionInv'
<1>1. /\ eJob.at = "mark" /\ E!End
      /\ \E c \in eJob.top : eCandidates' = [eCandidates EXCEPT ![c] = "approved"]
      /\ UNCHANGED <<eLatest, eSeen, eStudied, eEvidence, eProposals, eTasks, eState, eAgain,
                     eApprovals, faults>>
  BY DEF E!MarkApproved, E!At, E!Rest
<1>2. /\ eJob \in Jobs /\ eJob.event \in 1..MaxApprovals /\ eJob.event <= eApprovals
      /\ eAgain = {}
      /\ \E c \in ECands :
           /\ eJob.top = {c} /\ c \in DOMAIN eCandidates /\ eCandidates[c] = "candidate"
           /\ \A x, e : Asked(x, e) <=> x = c /\ e = eJob.event
           /\ \A t \in DOMAIN eTasks : eTasks[t].event = eJob.event => eTasks[t].candidate = c
  BY <1>1, ApprovingIs
<1>3. PICK c \in ECands :
           /\ eJob.top = {c} /\ c \in DOMAIN eCandidates /\ eCandidates[c] = "candidate"
           /\ \A x, e : Asked(x, e) <=> x = c /\ e = eJob.event
           /\ \A t \in DOMAIN eTasks : eTasks[t].event = eJob.event => eTasks[t].candidate = c
  BY <1>2
<1>4. /\ eCandidates' \in [DOMAIN eCandidates -> Statuses]
      /\ eCandidates'[c] = "approved" /\ DOMAIN eCandidates' = DOMAIN eCandidates
      /\ \A x \in DOMAIN eCandidates : x # c => eCandidates'[x] = eCandidates[x]
  BY <1>1, <1>3 DEF EvolutionInv, EvolutionTypes, Statuses
<1>5. eJob' \in Jobs /\ eJob'.at = "none" /\ eJob'.event = 0 /\ eAgain' = {}
  BY <1>1, <1>2, EndIs
<1>6. faults' \in 0..MaxFaults /\ faults' <= faults /\ Used' = Used /\ Used \in Nat
  <2>1. faults' = faults
    BY <1>1
  <2> QED
    BY <2>1, ChangesAssumption DEF Used, EvolutionInv, EvolutionTypes
<1>7. \A x, e : ~Asked(x, e)'
  BY <1>5 DEF Asked
<1>8. ASSUME NEW x \in DOMAIN eCandidates PROVE TasksFit(x)'
  <2>1. Slack(x) <= Slack(x)' /\ (eCandidates'[x] = "approved" => Own(x) # {})
    <3>1. CASE x = c
      <4>1. Slack(x)' = 2
        BY <1>4, <3>1 DEF Slack
      <4>2. Own(c) # {}
        BY <1>1, <1>3 DEF Own, HasTask, EvolutionInv, ApprovalInv
      <4> QED
        BY <3>1, <4>1, <4>2, SlackIs
    <3>2. CASE x # c
      <4>1. Slack(x)' = Slack(x)
        BY <1>3, <1>4, <1>5, <1>7, <3>2 DEF Slack
      <4> QED
        BY <1>4, <3>2, <4>1, SlackIs DEF EvolutionInv, ApprovalInv
    <3> QED
      BY <3>1, <3>2
  <2>2. Slack(x) \in Nat /\ Slack(x)' \in Nat
    BY DEF Slack
  <2>3. Used + Slack(x) <= Used' + Slack(x)' /\ eTasks' = eTasks
    BY <1>1, <1>6, <2>1, <2>2
  <2> QED
    BY <1>6, <2>1, <2>3, TasksStay
<1>9. ApprovalInv'
  <2>1. \A t \in DOMAIN eTasks' : eTasks'[t].candidate \in DOMAIN eCandidates' /\ eTasks'[t].event \in 1..eApprovals'
    BY <1>1, <1>4 DEF EvolutionInv, ApprovalInv
  <2>2. \A x \in DOMAIN eCandidates' :
          /\ 2 * Cardinality(Own(x)') <= Used' + Slack(x)'
          /\ eCandidates'[x] = "approved" => Own(x)' # {}
    BY <1>4, <1>8 DEF TasksFit
  <2> QED
    BY <1>5, <1>7, <2>1, <2>2 DEF ApprovalInv
<1>10. /\ eTasks' \in Seq([candidate : ECands, event : Nat])
       /\ eAgain' \subseteq ECands \X (1..MaxApprovals)
  BY <1>1 DEF EvolutionInv, EvolutionTypes
<1> QED
  BY <1>1, <1>4, <1>5, <1>6, <1>9, <1>10, ApprovalStep

-----------------------------------------------------------------------------

LEMMA EvolutionBegins == E!Init => EvolutionInv
<1> SUFFICES ASSUME E!Init PROVE EvolutionInv
  OBVIOUS
<1>1. /\ eJob = E!NoJob /\ eAgain = {} /\ eApprovals = 0 /\ faults = MaxFaults
      /\ eLatest = [i \in E!Inputs |-> 0] /\ eSeen = eLatest /\ eStudied = eLatest
      /\ eEvidence = <<>> /\ eCandidates = <<>> /\ eProposals = <<>> /\ eTasks = <<>>
      /\ eState = [mode |-> "co-evolve", due |-> FALSE, claim |-> 0, claims |-> 0, settings |-> 0,
                   cooled |-> FALSE]
  BY DEF E!Init
<1>2. /\ eJob \in Jobs /\ eJob.at = "none" /\ eJob.event = 0
  BY <1>1, NoJobIs
<1>3. DOMAIN eEvidence = {} /\ DOMAIN eCandidates = {} /\ DOMAIN eProposals = {} /\ DOMAIN eTasks = {}
  BY <1>1
<1>4. EvolutionTypes
  <2>1. 0 \in 0..MaxEvents /\ 0 \in 0..MaxClaims /\ 0 \in 0..MaxApprovals /\ MaxFaults \in 0..MaxFaults
    BY ChangesAssumption, InputsAssumption
  <2>2. eState \in EvolutionStates
    BY <1>1, <2>1 DEF EvolutionStates
  <2>3. IsFiniteSet(DOMAIN eCandidates) /\ eCandidates \in [DOMAIN eCandidates -> Statuses]
    BY <1>1, <1>3, FS_EmptySet
  <2>4. eProposals \in Seq(ProposalSet) /\ eTasks \in Seq([candidate : ECands, event : Nat])
    BY <1>1
  <2> QED
    BY <1>1, <1>2, <1>3, <2>1, <2>2, <2>3, <2>4 DEF EvolutionTypes, EvolutionStates, ProposalSet
<1>5. EvidenceInv /\ ProposalInv /\ ApprovalInv
  <2>1. \A x, e : ~Asked(x, e)
    BY <1>1, <1>2 DEF Asked
  <2> QED
    BY <1>1, <1>2, <1>3, <2>1 DEF EvidenceInv, ProposalInv, ApprovalInv, E!Unlinked, E!Open
<1> QED
  BY <1>1, <1>4, <1>5 DEF EvolutionInv

LEMMA EvolutionStands == EvolutionInv /\ UNCHANGED <<evolution, faults>> => EvolutionInv'
  BY BesideJob DEF evolution, EvolutionInv, EvolutionTypes

LEMMA EvolutionKeeps == ASSUME EvolutionInv, E!Next PROVE EvolutionInv'
<1>1. CASE E!MainThread
  BY <1>1, ScanBegins, GenerateKeeps, AppendKeeps, RecordScanKeeps, SynthesizeKeeps,
     WriteCandidateKeeps, LinkEvidenceKeeps, ProposalBegins, IdeasKeep, SupersedeKeeps,
     ProposeEventKeeps, SettingsKeep, EnqueueKeeps, MarkKeeps, RecordRemovedKeeps
     DEF E!MainThread
<1>2. CASE E!Commands
  BY <1>2, ProposalBegins, SettingsKeep, RemoveKeeps, ApproveKeeps DEF E!Commands
<1>3. CASE E!ClaimSchedule \/ E!DueScan \/ E!Due \/ E!Restart
  BY <1>3, ProposalBegins, ScanBegins, DueKeeps, RestartKeeps
<1>4. CASE (\E i \in Turns : E!Turn(i)) \/ (\E i \in Studied : E!TaskEvent(i))
  BY <1>4, InputKeeps DEF E!Inputs
<1> QED
  BY <1>1, <1>2, <1>3, <1>4 DEF E!Next

LEMMA EvolutionIsSound ==
  EvolutionInv => /\ E!TypeOK /\ E!NothingUnstudied /\ E!EvidenceIsAccountedFor
                  /\ E!OneOpenProposal /\ E!OneTaskPerApproval
<1> SUFFICES ASSUME EvolutionInv
             PROVE  /\ E!TypeOK /\ E!NothingUnstudied /\ E!EvidenceIsAccountedFor
                    /\ E!OneOpenProposal /\ E!OneTaskPerApproval
  OBVIOUS
<1>1. E!NothingUnstudied
  BY DEF E!NothingUnstudied, EvolutionInv
<1>2. E!EvidenceIsAccountedFor
  <2> SUFFICES ASSUME NEW s \in DOMAIN eEvidence
               PROVE  /\ eEvidence[s] \subseteq E!Cited(s)
                      /\ E!Cardinality(E!Cited(s)) <= 1 + MaxFaults - faults
    BY DEF E!EvidenceIsAccountedFor
  <2>1. /\ eEvidence[s] \subseteq E!Cited(s)
        /\ Cardinality(E!Cited(s)) <= Used + 1
    BY DEF EvolutionInv, EvidenceInv
  <2>2. E!Cardinality(E!Cited(s)) = Cardinality(E!Cited(s))
    BY EvolutionCardinality
  <2>3. IsFiniteSet(E!Cited(s))
    BY FS_Subset DEF E!Cited, EvolutionInv, EvolutionTypes
  <2>4. Cardinality(E!Cited(s)) \in Nat
    BY <2>3, FS_CardinalityType
  <2>5. faults \in 0..MaxFaults /\ MaxFaults \in Nat
    BY ChangesAssumption DEF EvolutionInv, EvolutionTypes
  <2> QED
    BY <2>1, <2>2, <2>4, <2>5 DEF Used
<1>3. E!OneOpenProposal
  <2>1. CASE E!Open = {}
    BY <2>1, EvolutionCardinality, FS_EmptySet DEF E!OneOpenProposal
  <2>2. ASSUME NEW p \in E!Open PROVE E!OneOpenProposal
    <3>1. E!Open = {p}
      BY <2>2 DEF EvolutionInv, ProposalInv
    <3> QED
      BY <3>1, EvolutionCardinality, FS_Singleton DEF E!OneOpenProposal
  <2> QED
    BY <2>1, <2>2
<1>4. E!OneTaskPerApproval
  <2> SUFFICES ASSUME NEW c \in DOMAIN eCandidates
               PROVE  /\ Cardinality(Own(c)) <= 1 + (MaxFaults - faults) \div 2
                      /\ eCandidates[c] = "approved" => Own(c) # {}
    BY EvolutionCardinality DEF E!OneTaskPerApproval, Own
  <2>1. /\ 2 * Cardinality(Own(c)) <= Used + Slack(c) /\ Cardinality(Own(c)) \in Nat
        /\ eCandidates[c] = "approved" => Own(c) # {}
    BY OwnIsFinite DEF EvolutionInv, ApprovalInv
  <2>2. Slack(c) \in {0, 1, 2} /\ Used \in Nat
    BY SlackIs, ChangesAssumption DEF Used, EvolutionInv, EvolutionTypes
  <2>3. \A n, u \in Nat, k \in {0, 1, 2} : 2 * n <= u + k => n <= 1 + u \div 2
    OBVIOUS
  <2> QED
    BY <2>1, <2>2, <2>3 DEF Used
<1>5. E!TypeOK
  <2>1. /\ eLatest \in [E!Inputs -> 0..MaxEvents] /\ eSeen \in [E!Inputs -> 0..MaxEvents]
        /\ DOMAIN eEvidence \subseteq E!Signals
        /\ eState.claim \in 0..MaxClaims /\ faults \in 0..MaxFaults /\ eApprovals \in 0..MaxApprovals
    BY DEF EvolutionInv, EvolutionTypes
  <2>2. \A c \in ECands : E!IsCandidate(c)
    BY DEF ECands, E!IsCandidate
  <2>3. DOMAIN eCandidates \subseteq ECands /\ \A c \in DOMAIN eCandidates : eCandidates[c] \in Statuses
    BY DEF EvolutionInv, EvolutionTypes
  <2>4. \A s \in DOMAIN eEvidence : \A c \in eEvidence[s] : c \in ECands
    BY <2>3 DEF EvolutionInv, EvidenceInv, E!Cited
  <2>5. \A p \in DOMAIN eProposals : eProposals[p].candidate \in ECands
    <3>1. eProposals \in Seq(ProposalSet)
      BY DEF EvolutionInv, EvolutionTypes, ProposalSet
    <3>2. \A p \in DOMAIN eProposals : eProposals[p] \in ProposalSet
      BY <3>1
    <3> QED
      BY <3>2 DEF ProposalSet
  <2> QED
    BY <2>1, <2>2, <2>3, <2>4, <2>5 DEF E!TypeOK, Statuses
<1> QED
  BY <1>1, <1>2, <1>3, <1>4, <1>5

-----------------------------------------------------------------------------
(* Curation.                                                               *)

PoolCands == [source : C!Sources, body : BOOLEAN, safe : BOOLEAN,
              status : {"candidate", "approved", "removed"}]
TaskEnd == [task : EndedTasks, event : {"completed", "partial", "failed", "regressed"}]
Curated == [status : {"llm", "deterministic-fallback"}, recommended : 0..PoolSize,
            suggestion : C!Suggestions, backed : BOOLEAN]
Evident == [at : Nat, task : EndedTasks,
            authority : {"none", "authoritative-body", "task-completion"}]

CurationTypes ==
    /\ cCandidate \in [C!Pool -> PoolCands] /\ cReview \in [EndedTasks -> CitedReviews]
    /\ cPromoted \subseteq EndedTasks /\ cEnds \in Seq(TaskEnd)
    /\ cTurn.step \in {"idle", "asked"}
    /\ cCurations \in Seq(Curated)

\* What the model was shown is the pool of the candidates as they stand, and evidence
\* has the authority of work that landed or that a task completed.
TurnInv ==
    cTurn.step = "asked" =>
       /\ cTurn.pool = C!Selected /\ cTurn.evidence \subseteq Evident
       /\ \A item \in cTurn.evidence :
             /\ item.authority = "authoritative-body" => item.task \in cTurn.landed
             /\ item.authority = "task-completion" => item.task \in cTurn.finished

CurationsInv ==
    \A i \in DOMAIN cCurations :
       /\ cCurations[i].suggestion.classification = C!Resolved => cCurations[i].backed
       /\ cCurations[i].recommended # 0 => cCandidate[cCurations[i].recommended].safe

CurationInv == CurationTypes /\ TurnInv /\ CurationsInv

LEMMA LeastOf ==
    ASSUME NEW S \in SUBSET Nat, S # {}
    PROVE  \E n \in S : \A m \in S : n <= m
<1> DEFINE less == OpToRel(<, Nat)
<1>1. IsWellFoundedOn(less, Nat)
  BY NatLessThanWellFounded
<1>2. \A x, y \in Nat : x < y => <<x, y>> \in less
  BY DEF OpToRel
<1> HIDE DEF less
<1>3. PICK x \in S : \A y \in S : ~ (<<y, x>> \in less)
  BY <1>1, WFMin
<1>4. ASSUME NEW m \in S PROVE x <= m
  <2>1. x \in Nat /\ m \in Nat /\ ~(m < x)
    BY <1>2, <1>3
  <2> QED
    BY <2>1
<1> QED
  BY <1>4

LEMMA CurationCardinality == \A S : C!Cardinality(S) = Cardinality(S)
  BY DEF C!Cardinality, Cardinality

LEMMA PoolIs == CurationTypes => /\ C!Pool = 1..PoolSize /\ C!Pool \subseteq Nat \ {0}
                                 /\ IsFiniteSet(C!Pool)
                                 /\ C!Actionable \subseteq C!Pool /\ C!First \subseteq C!Actionable
                                 /\ C!Selected \subseteq C!Actionable
<1>1. C!Pool = 1..PoolSize /\ PoolSize \in Nat
  BY PoolAssumption DEF C!Pool
<1>2. \A n \in Nat : IsFiniteSet(1..n)
  BY FS_Interval
<1> QED
  BY <1>1, <1>2 DEF C!Actionable, C!First, C!Selected

\* The reviews of the tasks never change, nor then what a suggestion may cite.
LEMMA CuratedStays == UNCHANGED cReview => Curated' = Curated
  BY DEF Curated, C!Suggestions, C!AllRefs, C!Refs, C!TaskRef, C!None, C!Pool, C!Classifications,
     C!Resolved

\* The pool that the model is shown has room for no candidate that it leaves out.
LEMMA PoolIsFull ==
    ASSUME CurationTypes, Cardinality(C!Selected) < PoolLimit
    PROVE  C!Actionable \subseteq C!Selected
<1> DEFINE out == C!Actionable \ C!Selected
<1>0. /\ C!Actionable \subseteq Nat /\ IsFiniteSet(C!Actionable) /\ C!First \subseteq C!Actionable
      /\ C!Selected \subseteq C!Actionable
  BY PoolIs, FS_Subset
<1> SUFFICES ASSUME out # {} PROVE FALSE
  OBVIOUS
<1>1. \E c \in out : C!Before(c) \subseteq C!Selected \cup {c}
  <2>1. CASE out \cap C!First # {}
    <3>1. out \cap C!First \in SUBSET Nat
      BY <1>0
    <3>2. PICK c \in out \cap C!First : \A d \in out \cap C!First : c <= d
      BY <2>1, <3>1, LeastOf
    <3>3. C!Before(c) = {d \in C!First : d <= c}
      BY <3>2 DEF C!Before
    <3>4. ASSUME NEW d \in C!First, d <= c, d # c PROVE d \in C!Selected
      <4>1. ~(c <= d)
        BY <1>0, <3>2, <3>4
      <4> QED
        BY <1>0, <3>2, <4>1
    <3> QED
      BY <3>2, <3>3, <3>4
  <2>2. CASE out \cap C!First = {}
    <3>1. out \in SUBSET Nat
      BY <1>0
    <3>2. PICK c \in out : \A d \in out : c <= d
      BY <3>1, LeastOf
    <3>3. C!Before(c) = C!First \cup {d \in C!Actionable : d <= c}
      BY <2>2, <3>2 DEF C!Before
    <3>4. ASSUME NEW d \in C!Actionable, d <= c, d # c PROVE d \in C!Selected
      <4>1. ~(c <= d)
        BY <1>0, <3>2, <3>4
      <4> QED
        BY <3>2, <4>1
    <3>5. C!First \subseteq C!Selected
      BY <1>0, <2>2
    <3> QED
      BY <3>2, <3>3, <3>4, <3>5
  <2> QED
    BY <2>1, <2>2
<1>2. PICK c \in out : C!Before(c) \subseteq C!Selected \cup {c}
  BY <1>1
<1>3. ~(Cardinality(C!Before(c)) <= PoolLimit)
  BY <1>2, CurationCardinality DEF C!Selected
<1>4. IsFiniteSet(C!Selected)
  BY <1>0, FS_Subset
<1>5. /\ IsFiniteSet(C!Selected \cup {c})
      /\ Cardinality(C!Selected \cup {c}) = Cardinality(C!Selected) + 1
  BY <1>2, <1>4, FS_AddElement
<1>6. /\ Cardinality(C!Before(c)) <= Cardinality(C!Selected) + 1
      /\ IsFiniteSet(C!Before(c))
  BY <1>2, <1>5, FS_Subset
<1>7. Cardinality(C!Before(c)) \in Nat /\ Cardinality(C!Selected) \in Nat /\ PoolLimit \in Nat
  BY <1>4, <1>6, FS_CardinalityType, PoolAssumption
<1> QED
  BY <1>3, <1>6, <1>7

\* It shows a candidate of each source when it has room for one of each.
LEMMA SourcesAreShown ==
    ASSUME CurationTypes, PoolLimit >= Cardinality(C!Sources), NEW c \in C!Actionable
    PROVE  \E d \in C!Selected : cCandidate[d].source = cCandidate[c].source
<1> DEFINE same == {d \in C!Actionable : cCandidate[d].source = cCandidate[c].source}
           of == [d \in C!First |-> cCandidate[d].source]
<1>0. /\ C!Actionable \subseteq Nat /\ IsFiniteSet(C!Actionable) /\ C!First \subseteq C!Actionable
      /\ C!Actionable \subseteq C!Pool
  BY PoolIs, FS_Subset
<1>1. same \in SUBSET Nat /\ same # {}
  BY <1>0
<1>2. PICK d \in same : \A e \in same : d <= e
  BY <1>1, LeastOf
<1>3. d \in C!First
  <2>1. ASSUME NEW e \in C!Actionable, e < d PROVE cCandidate[e].source # cCandidate[d].source
    <3>1. ~(d <= e)
      BY <1>0, <2>1
    <3> QED
      BY <1>2, <3>1
  <2> QED
    BY <1>2, <2>1 DEF C!First
<1>4. Cardinality(C!First) <= Cardinality(C!Sources)
  <2>1. \A e \in C!First : cCandidate[e].source \in C!Sources
    BY <1>0 DEF CurationTypes, PoolCands
  <2>2. ASSUME NEW e \in C!First, NEW f \in C!First, cCandidate[e].source = cCandidate[f].source
        PROVE  e = f
    <3>1. ~(e < f) /\ ~(f < e)
      BY <1>0, <2>2 DEF C!First
    <3> QED
      BY <1>0, <3>1
  <2>3. of \in Injection(C!First, C!Sources)
    BY <2>1, <2>2 DEF Injection, IsInjective
  <2>4. IsFiniteSet(C!Sources)
    <3>1. C!Sources = ({"feedback"} \cup {"brainstorming"})
      BY DEF C!Sources
    <3> QED
      BY <3>1, FS_Singleton, FS_AddElement
  <2> HIDE DEF of
  <2> QED
    BY <2>3, <2>4, FS_Injection
<1>5. Cardinality(C!Before(d)) <= Cardinality(C!First) /\ IsFiniteSet(C!Before(d)) /\ IsFiniteSet(C!First)
  <2>1. C!Before(d) \subseteq C!First
    BY <1>3 DEF C!Before
  <2> QED
    BY <1>0, <2>1, FS_Subset
<1>6. Cardinality(C!Sources) \in Nat
  <2>1. C!Sources = ({"feedback"} \cup {"brainstorming"})
    BY DEF C!Sources
  <2> QED
    BY <2>1, FS_Singleton, FS_AddElement, FS_CardinalityType
<1>7. Cardinality(C!Before(d)) \in Nat /\ Cardinality(C!First) \in Nat
  BY <1>5, FS_CardinalityType
<1>8. Cardinality(C!Before(d)) <= PoolLimit
  BY <1>4, <1>5, <1>6, <1>7, PoolAssumption
<1> QED
  BY <1>2, <1>8, CurationCardinality DEF C!Selected

LEMMA IdleIs == C!Idle.step = "idle"
  BY DEF C!Idle

LEMMA NoneIs == /\ C!None.classification = "none" /\ C!None.candidate = 0
                /\ C!None \in C!Suggestions
  BY DEF C!None, C!Suggestions

LEMMA CurationBegins == C!Init => CurationInv
<1> SUFFICES ASSUME C!Init PROVE CurationInv
  OBVIOUS
<1>1. C!Kinds \subseteq PoolCands
  <2>1. "candidate" \in {"candidate", "approved", "removed"} /\ TRUE \in BOOLEAN /\ FALSE \in BOOLEAN
        /\ "feedback" \in C!Sources /\ "brainstorming" \in C!Sources
    BY DEF C!Sources
  <2> QED
    BY <2>1 DEF C!Kinds, C!Kind, PoolCands
<1>2. cCandidate \in [C!Pool -> PoolCands]
  BY <1>1 DEF C!Init
<1>3. CurationTypes
  BY <1>2, IdleIs DEF C!Init, CurationTypes
<1>4. TurnInv /\ CurationsInv
  BY IdleIs DEF C!Init, TurnInv, CurationsInv
<1> QED
  BY <1>3, <1>4 DEF CurationInv

\* A task ends or regresses, or its review lands: what the model works on stays.
LEMMA WorkKeeps ==
    ASSUME CurationInv, NEW t \in EndedTasks, C!TaskEnds(t) \/ C!Regress(t) \/ C!Promote(t)
    PROVE  CurationInv'
<1>1. UNCHANGED <<cCandidate, cReview, cTurn, cCurations>>
  BY DEF C!TaskEnds, C!Regress, C!Promote
<1>2. cEnds' \in Seq(TaskEnd) /\ cPromoted' \subseteq EndedTasks
  <2>1. \A e \in {"completed", "partial", "failed", "regressed"} : [task |-> t, event |-> e] \in TaskEnd
    BY DEF TaskEnd
  <2>2. \A x \in TaskEnd : Append(cEnds, x) \in Seq(TaskEnd)
    BY DEF CurationInv, CurationTypes
  <2>3. cEnds \in Seq(TaskEnd) /\ cPromoted \subseteq EndedTasks
    BY DEF CurationInv, CurationTypes
  <2> HIDE DEF TaskEnd
  <2>4. CASE C!TaskEnds(t)
    BY <2>1, <2>2, <2>3, <2>4 DEF C!TaskEnds
  <2>5. CASE C!Regress(t)
    BY <2>1, <2>2, <2>3, <2>5 DEF C!Regress
  <2>6. CASE C!Promote(t)
    BY <2>3, <2>6 DEF C!Promote
  <2> QED
    BY <2>4, <2>5, <2>6
<1>3. C!Selected' = C!Selected
  BY <1>1 DEF C!Selected, C!Before, C!First, C!Actionable
<1>4. Curated' = Curated
  BY <1>1, CuratedStays
<1>5. CurationTypes'
  BY <1>1, <1>2, <1>4 DEF CurationInv, CurationTypes, C!Pool
<1>6. TurnInv' /\ CurationsInv'
  BY <1>1, <1>3 DEF CurationInv, TurnInv, CurationsInv, C!Resolved
<1> QED
  BY <1>5, <1>6 DEF CurationInv

\* Of each task there is one latest end.
LEMMA LatestIs ==
    ASSUME CurationTypes, NEW i \in C!Outcomes
    PROVE  C!Latest(cEnds[i].task) = cEnds[i] /\ C!Ended(cEnds[i].task) /\ i \in Nat
           /\ cEnds[i] \in TaskEnd
<1>1. cEnds \in Seq(TaskEnd) /\ Len(cEnds) \in Nat /\ C!Outcomes \subseteq 1..Len(cEnds)
  BY DEF CurationTypes, C!Outcomes
<1>2. i \in 1..Len(cEnds) /\ i \in Nat /\ cEnds[i] \in TaskEnd
  BY <1>1
<1>3. ASSUME NEW j \in C!Outcomes, cEnds[j].task = cEnds[i].task PROVE j = i
  <2>1. j \in 1..Len(cEnds) /\ ~(j \in (i + 1)..Len(cEnds)) /\ ~(i \in (j + 1)..Len(cEnds))
    BY <1>1, <1>3 DEF C!Outcomes
  <2> QED
    BY <1>1, <1>2, <2>1
<1>4. (CHOOSE j \in C!Outcomes : cEnds[j].task = cEnds[i].task) = i
  BY <1>3
<1> QED
  BY <1>2, <1>4 DEF C!Latest, C!Ended

LEMMA ProposeKeeps == ASSUME CurationInv, C!Propose PROVE CurationInv'
<1>1. UNCHANGED <<cCandidate, cReview, cPromoted, cEnds, cCurations>>
  BY DEF C!Propose, C!work
<1>2. /\ cTurn'.step = "asked" /\ cTurn'.pool = C!Selected /\ cTurn'.evidence = C!Evidence
      /\ cTurn'.landed = {t \in cPromoted : C!Latest(t).event = "completed"}
      /\ cTurn'.finished = {t \in EndedTasks : /\ C!Ended(t) /\ C!Latest(t).event = "completed"
                                               /\ cReview[t] = 0}
  BY DEF C!Propose
<1>3. ASSUME NEW item \in C!Evidence
      PROVE  /\ item \in Evident
             /\ item.authority = "authoritative-body" => item.task \in cTurn'.landed
             /\ item.authority = "task-completion" => item.task \in cTurn'.finished
  <2>1. PICK i \in C!Outcomes :
           /\ cEnds[i].event \in {"completed", "partial"}
           /\ item = [at |-> i, task |-> cEnds[i].task, authority |-> C!Authority(cEnds[i])]
    BY DEF C!Evidence
  <2>2. /\ C!Latest(cEnds[i].task) = cEnds[i] /\ C!Ended(cEnds[i].task) /\ i \in Nat
        /\ cEnds[i] \in TaskEnd
    BY LatestIs DEF CurationInv
  <2>3. /\ C!Authority(cEnds[i]) \in {"none", "authoritative-body", "task-completion"}
        /\ C!Authority(cEnds[i]) = "authoritative-body" =>
              cEnds[i].event # "partial" /\ cEnds[i].task \in cPromoted
        /\ C!Authority(cEnds[i]) = "task-completion" =>
              cEnds[i].event # "partial" /\ cReview[cEnds[i].task] = 0
    BY DEF C!Authority
  <2>4. cEnds[i].task \in EndedTasks
    BY <2>2 DEF TaskEnd
  <2>5. item.at = i /\ item.task = cEnds[i].task /\ item.authority = C!Authority(cEnds[i])
    BY <2>1
  <2> HIDE DEF C!Authority
  <2>6. item \in Evident
    BY <2>1, <2>2, <2>3, <2>4 DEF Evident
  <2> QED
    BY <1>2, <2>1, <2>2, <2>3, <2>4, <2>5, <2>6
<1>4. C!Selected' = C!Selected
  BY <1>1 DEF C!Selected, C!Before, C!First, C!Actionable
<1>5. TurnInv'
  <2> HIDE DEF Evident
  <2>1. cTurn'.evidence \subseteq Evident
    BY <1>2, <1>3
  <2>2. \A item \in cTurn'.evidence :
             /\ item.authority = "authoritative-body" => item.task \in cTurn'.landed
             /\ item.authority = "task-completion" => item.task \in cTurn'.finished
    BY <1>2, <1>3
  <2> QED
    BY <1>2, <1>4, <2>1, <2>2 DEF TurnInv
<1>6. CurationTypes'
  BY <1>1, <1>2, CuratedStays DEF CurationInv, CurationTypes, C!Pool
<1>7. CurationsInv'
  BY <1>1 DEF CurationInv, CurationsInv, C!Resolved
<1> QED
  BY <1>5, <1>6, <1>7 DEF CurationInv

LEMMA CurationCrashKeeps == ASSUME CurationInv, C!Crash PROVE CurationInv'
<1>1. UNCHANGED <<cCandidate, cReview, cPromoted, cEnds, cCurations>> /\ cTurn'.step = "idle"
  BY IdleIs DEF C!Crash, C!work
<1>2. CurationTypes'
  BY <1>1, CuratedStays DEF CurationInv, CurationTypes, C!Pool
<1>3. TurnInv' /\ CurationsInv'
  BY <1>1 DEF CurationInv, TurnInv, CurationsInv, C!Resolved
<1> QED
  BY <1>2, <1>3 DEF CurationInv

LEMMA DecisionKeeps ==
    ASSUME CurationInv, NEW c \in C!Pool, C!ApproveCandidate(c) \/ C!RemoveCandidate(c)
    PROVE  CurationInv'
<1>1. PICK s \in {"approved", "removed"} : cCandidate' = [cCandidate EXCEPT ![c].status = s]
  BY DEF C!ApproveCandidate, C!RemoveCandidate
<1>2. UNCHANGED <<cReview, cPromoted, cEnds, cTurn, cCurations>> /\ cTurn.step = "idle"
  BY DEF C!ApproveCandidate, C!RemoveCandidate, C!MayDecide, C!work
<1>3. cCandidate \in [C!Pool -> PoolCands]
  BY DEF CurationInv, CurationTypes
<1>4. cCandidate' \in [C!Pool -> PoolCands]
  <2>1. [cCandidate[c] EXCEPT !.status = s] \in PoolCands
    BY <1>1, <1>3 DEF PoolCands
  <2> HIDE DEF PoolCands
  <2> QED
    BY <1>1, <1>3, <2>1
<1>5. \A d \in C!Pool : cCandidate'[d].safe = cCandidate[d].safe
  BY <1>1, <1>3 DEF PoolCands
<1>6. C!Pool = 1..PoolSize /\ PoolSize \in Nat
  BY PoolAssumption DEF C!Pool
<1>7. CurationsInv'
  <2> SUFFICES ASSUME NEW i \in DOMAIN cCurations
               PROVE  /\ cCurations[i].suggestion.classification = C!Resolved => cCurations[i].backed
                      /\ cCurations[i].recommended # 0 => cCandidate'[cCurations[i].recommended].safe
    BY <1>2 DEF CurationsInv, C!Resolved
  <2>1. cCurations[i] \in Curated
    BY DEF CurationInv, CurationTypes
  <2>2. cCurations[i].recommended \in 0..PoolSize
    BY <2>1 DEF Curated
  <2>3. cCurations[i].recommended # 0 => cCurations[i].recommended \in C!Pool
    BY <1>6, <2>2
  <2> QED
    BY <1>5, <2>3 DEF CurationInv, CurationsInv
<1>8. CurationTypes'
  BY <1>2, <1>4, CuratedStays DEF CurationInv, CurationTypes, C!Pool
<1>9. TurnInv'
  BY <1>2 DEF TurnInv
<1> QED
  BY <1>7, <1>8, <1>9 DEF CurationInv

\* A resolution that the evidence supports cites work that truly resolves the candidate.
LEMMA SupportIsBacked ==
    ASSUME CurationInv, cTurn.step = "asked", NEW s \in C!Suggestions, C!ValidSuggestion(s),
           s.classification = C!Resolved
    PROVE  C!Backed(s)
<1>1. s.refs \subseteq C!Known /\ C!SupportsResolution(s.candidate, s.refs) /\ s.candidate # 0
  <2>1. s.candidate \in cTurn.pool /\ cTurn.pool \subseteq C!Pool
    BY PoolIs DEF C!ValidSuggestion, CurationInv, TurnInv
  <2> QED
    BY <2>1, PoolIs DEF C!ValidSuggestion, CurationInv
<1>2. ASSUME NEW ref \in s.refs
      PROVE  C!Item(ref) \in cTurn.evidence /\ ref \in C!Refs(C!Item(ref).task)
  <2> DEFINE offer == {item \in cTurn.evidence : ref \in C!Refs(item.task)}
             times == {item.at : item \in offer}
  <2>1. offer # {}
    BY <1>1, <1>2 DEF C!Known
  <2>2. times \in SUBSET Nat /\ times # {}
    BY <2>1 DEF CurationInv, TurnInv, Evident
  <2>3. PICK n \in times : \A m \in times : n <= m
    BY <2>2, LeastOf
  <2>4. PICK item \in offer : item.at = n
    BY <2>3
  <2>5. /\ item \in cTurn.evidence /\ ref \in C!Refs(item.task)
        /\ \A other \in cTurn.evidence : ref \in C!Refs(other.task) => item.at <= other.at
    BY <2>3, <2>4
  <2> QED
    BY <2>5 DEF C!Item
<1>3. ASSUME NEW ref \in s.refs
      PROVE  /\ C!Item(ref).authority = "authoritative-body" => C!Item(ref).task \in cTurn.landed
             /\ C!Item(ref).authority = "task-completion" => C!Item(ref).task \in cTurn.finished
             /\ C!Refs(C!Item(ref).task) \cap s.refs # {}
  BY <1>2, <1>3 DEF CurationInv, TurnInv
<1>4. CASE \E ref \in s.refs : C!Item(ref).authority = "authoritative-body"
  BY <1>3, <1>4 DEF C!Backed
<1>5. CASE /\ ~cCandidate[s.candidate].body
           /\ \E ref \in s.refs : C!Item(ref).authority = "task-completion"
  BY <1>1, <1>3, <1>5 DEF C!Backed
<1> QED
  BY <1>1, <1>4, <1>5 DEF C!SupportsResolution

LEMMA FallbackIsSafe ==
    ASSUME CurationInv, cTurn.step = "asked"
    PROVE  /\ C!Fallback \in 0..PoolSize
           /\ C!Fallback # 0 => cCandidate[C!Fallback].safe
<1> DEFINE safe == {c \in cTurn.pool : cCandidate[c].safe}
<1>1. safe \subseteq 1..PoolSize /\ PoolSize \in Nat
  BY PoolIs, PoolAssumption DEF CurationInv, TurnInv
<1>2. CASE safe = {}
  BY <1>1, <1>2 DEF C!Fallback
<1>3. CASE safe # {}
  <2>1. safe \in SUBSET Nat
    BY <1>1
  <2>2. \E c \in safe : \A d \in safe : c <= d
    BY <1>3, <2>1, LeastOf
  <2>3. C!Fallback = CHOOSE c \in safe : \A d \in safe : c <= d
    BY <1>3 DEF C!Fallback
  <2>4. C!Fallback \in safe
    BY <2>2, <2>3
  <2> QED
    BY <1>1, <2>4
<1> QED
  BY <1>2, <1>3

LEMMA ReplyKeeps ==
    ASSUME CurationInv, NEW recommended \in 0..PoolSize, NEW s \in C!Suggestions,
           C!Reply(recommended, s)
    PROVE  CurationInv'
<1> DEFINE valid == /\ C!ValidRecommendation(recommended)
                    /\ s = C!None \/ (C!ValidSuggestion(s) /\ s.candidate # recommended)
           kept == [status |-> IF valid THEN "llm" ELSE "deterministic-fallback",
                    recommended |-> IF valid THEN recommended ELSE C!Fallback,
                    suggestion |-> IF valid THEN s ELSE C!None,
                    backed |-> valid /\ C!Backed(s)]
<1>1. /\ cTurn.step = "asked" /\ cCurations' = Append(cCurations, kept) /\ cTurn' = C!Idle
      /\ UNCHANGED <<cCandidate, cReview, cEnds, cPromoted>>
  BY DEF C!Reply, C!work
<1>2. kept \in Curated
  <2>1. (IF valid THEN "llm" ELSE "deterministic-fallback") \in {"llm", "deterministic-fallback"}
    OBVIOUS
  <2>2. (IF valid THEN recommended ELSE C!Fallback) \in 0..PoolSize
    BY <1>1, FallbackIsSafe
  <2>3. (IF valid THEN s ELSE C!None) \in C!Suggestions
    BY NoneIs
  <2>4. (valid /\ C!Backed(s)) \in BOOLEAN
    OBVIOUS
  <2> HIDE DEF valid
  <2> QED
    BY <2>1, <2>2, <2>3, <2>4 DEF Curated
<1>3. kept.suggestion.classification = C!Resolved => kept.backed
  <2>1. CASE valid /\ s # C!None
    BY <1>1, <2>1, SupportIsBacked
  <2>2. CASE ~valid \/ s = C!None
    BY <2>2, NoneIs DEF C!Resolved
  <2> QED
    BY <2>1, <2>2
<1>4. kept.recommended # 0 => cCandidate[kept.recommended].safe
  BY <1>1, FallbackIsSafe DEF C!ValidRecommendation
<1> HIDE DEF kept
<1>5. cCurations \in Seq(Curated)
  BY DEF CurationInv, CurationTypes
<1>8. Append(cCurations, kept) \in Seq(Curated)
  <2> HIDE DEF Curated
  <2> QED
    BY <1>2, <1>5
<1>6. /\ cCurations' \in Seq(Curated)
      /\ \A i \in DOMAIN cCurations' :
            \/ cCurations'[i] = kept
            \/ i \in DOMAIN cCurations /\ cCurations'[i] = cCurations[i]
  <2>1. \A i \in DOMAIN Append(cCurations, kept) :
           \/ Append(cCurations, kept)[i] = kept
           \/ i \in DOMAIN cCurations /\ Append(cCurations, kept)[i] = cCurations[i]
    <3> HIDE DEF Curated
    <3> QED
      BY <1>5
  <2>2. cCurations' = Append(cCurations, kept)
    BY <1>1
  <2> QED
    BY <1>8, <2>1, <2>2
<1>7. CurationsInv'
  <2> SUFFICES ASSUME NEW i \in DOMAIN cCurations'
               PROVE  /\ cCurations'[i].suggestion.classification = C!Resolved => cCurations'[i].backed
                      /\ cCurations'[i].recommended # 0 => cCandidate[cCurations'[i].recommended].safe
    BY <1>1 DEF CurationsInv, C!Resolved
  <2> QED
    BY <1>3, <1>4, <1>6 DEF CurationInv, CurationsInv
<1>9. CurationTypes'
  BY <1>1, <1>6, CuratedStays, IdleIs DEF CurationInv, CurationTypes, C!Pool
<1>10. TurnInv'
  BY <1>1, IdleIs DEF TurnInv
<1> QED
  BY <1>7, <1>9, <1>10 DEF CurationInv

LEMMA CurationKeeps == ASSUME CurationInv, C!Next PROVE CurationInv'
<1>1. ASSUME NEW recommended \in 0..PoolSize, C!Reply(recommended, C!None) PROVE CurationInv'
  BY <1>1, ReplyKeeps, NoneIs
<1>2. ASSUME NEW s \in C!Suggestions, NEW conflict \in BOOLEAN,
             C!Reply(IF conflict THEN s.candidate ELSE 0, s)
      PROVE  CurationInv'
  <2>1. s.candidate \in 0..PoolSize /\ 0 \in 0..PoolSize
    BY PoolAssumption, NoneIs DEF C!Suggestions, C!Pool
  <2>2. (IF conflict THEN s.candidate ELSE 0) \in 0..PoolSize
    BY <2>1
  <2> QED
    BY <1>2, <2>2, ReplyKeeps
<1> QED
  BY <1>1, <1>2, WorkKeeps, ProposeKeeps, CurationCrashKeeps, DecisionKeeps DEF C!Next

LEMMA CurationStands == CurationInv /\ UNCHANGED curation => CurationInv'
<1> SUFFICES ASSUME CurationInv, UNCHANGED curation PROVE CurationInv'
  OBVIOUS
<1>1. C!Selected' = C!Selected
  BY DEF curation, C!Selected, C!Before, C!First, C!Actionable
<1>2. CurationTypes'
  BY CuratedStays DEF curation, CurationInv, CurationTypes, C!Pool
<1>3. TurnInv' /\ CurationsInv'
  BY <1>1 DEF curation, CurationInv, TurnInv, CurationsInv, C!Resolved
<1> QED
  BY <1>2, <1>3 DEF CurationInv

LEMMA CurationIsSound == CurationInv => C!TypeOK /\ C!ResolutionIsBacked /\ C!PoolIsFair
<1> SUFFICES ASSUME CurationInv PROVE C!TypeOK /\ C!ResolutionIsBacked /\ C!PoolIsFair
  OBVIOUS
<1>1. /\ DOMAIN cCurations = 1..Len(cCurations) /\ DOMAIN cEnds = 1..Len(cEnds)
      /\ \A i \in DOMAIN cEnds : cEnds[i] \in TaskEnd
      /\ \A i \in DOMAIN cCurations : cCurations[i] \in Curated
  BY DEF CurationInv, CurationTypes
<1>2. C!TypeOK
  <2>1. \A i \in 1..Len(cEnds) :
           cEnds[i] \in [task : EndedTasks, event : {"completed", "partial", "failed", "regressed"}]
    BY <1>1 DEF TaskEnd
  <2>2. \A i \in 1..Len(cCurations) :
          /\ cCurations[i].status \in {"llm", "deterministic-fallback"}
          /\ cCurations[i].recommended \in 0..PoolSize
          /\ cCurations[i].suggestion \in C!Suggestions
    <3>1. \A x \in Curated : /\ x.status \in {"llm", "deterministic-fallback"}
                              /\ x.recommended \in 0..PoolSize /\ x.suggestion \in C!Suggestions
      BY DEF Curated
    <3>2. ASSUME NEW i \in 1..Len(cCurations) PROVE cCurations[i] \in Curated
      <4>1. i \in DOMAIN cCurations
        BY <1>1
      <4> QED
        BY <1>1, <4>1
    <3> QED
      BY <3>1, <3>2
  <2>3. /\ cCandidate \in [C!Pool -> PoolCands] /\ cReview \in [EndedTasks -> CitedReviews]
        /\ cPromoted \subseteq EndedTasks /\ cTurn.step \in {"idle", "asked"}
    BY DEF CurationInv, CurationTypes
  <2> QED
    BY <2>1, <2>2, <2>3 DEF C!TypeOK, PoolCands
<1>3. C!ResolutionIsBacked
  BY <1>1 DEF C!ResolutionIsBacked, CurationInv, CurationsInv
<1>4. C!PoolIsFair
  BY <1>1, PoolIsFull, SourcesAreShown, CurationCardinality
     DEF C!PoolIsFair, CurationInv, CurationsInv, TurnInv
<1> QED
  BY <1>2, <1>3, <1>4

\* Evidence, proposals and approvals of evolution are accounted for: every task is studied
\* once, a signal is cited where it was used and at most once more for each failure, at most
\* one proposal is open, and an approval makes one task and another one only for every two
\* failures; a suggestion that a candidate is resolved is backed by work that truly landed or
\* was completed, and what the model is shown leaves no source out (evolution/core.py,
\* evolution/curation.py).
THEOREM EvidenceStaysAccountedFor == MCSpec => []EvidenceIsAccountedFor
<1> DEFINE Evolving == part = "evolution" => EvolutionInv
<1>1. MCInit => Evolving /\ CurationInv
  BY EvolutionBegins, CurationBegins DEF MCInit
<1>2. Evolving /\ [MCNext]_allVars => Evolving'
  <2> SUFFICES ASSUME Evolving, [MCNext]_allVars, part' = "evolution" PROVE EvolutionInv'
    OBVIOUS
  <2>1. part' = part
    BY DEF MCNext, allVars, InReviews, InLineage, InEvolution, InCuration, InLearning, InMemory,
       InMigration, InPrivateState, InEnvironments, InQuotaWarnings, InOutbound, InSlackUpload,
       InSlackIntake
  <2>2. EvolutionInv /\ part = "evolution"
    BY <2>1
  <2>3. E!Next \/ UNCHANGED <<evolution, faults>>
    BY <2>2 DEF MCNext, allVars, self, InReviews, InLineage, InEvolution, InCuration, InLearning,
       InMemory, InMigration, InPrivateState, InEnvironments, InQuotaWarnings, InOutbound,
       InSlackUpload, InSlackIntake
  <2> QED
    BY <2>2, <2>3, EvolutionKeeps, EvolutionStands
<1>3. CurationInv /\ [MCNext]_allVars => CurationInv'
  <2>1. CASE C!Next /\ CurationInv
    BY <2>1, CurationKeeps
  <2>2. CASE UNCHANGED curation /\ CurationInv
    BY <2>2, CurationStands
  <2> QED
    BY <2>1, <2>2 DEF MCNext, allVars, self, InReviews, InLineage, InEvolution, InCuration,
       InLearning, InMemory, InMigration, InPrivateState, InEnvironments, InQuotaWarnings,
       InOutbound, InSlackUpload, InSlackIntake
<1>4. Evolving /\ CurationInv => EvidenceIsAccountedFor
  BY EvolutionIsSound, CurationIsSound DEF EvidenceIsAccountedFor
<1> QED
  BY <1>1, <1>2, <1>3, <1>4, PTL DEF MCSpec

=============================================================================
