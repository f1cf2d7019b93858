--------------------------- MODULE ApprovalProofs ---------------------------
(***************************************************************************)
(* Requests climb earned tiers, decisions stand and confirmed documents    *)
(* are approved, for any number of documents, requests, users, tiers and   *)
(* concurrent transactions.                                                *)
(***************************************************************************)
EXTENDS Approval, TLAPS

LEMMA ApprovalTypes == NoRow \in Row /\ Idle \in Job /\ 1 \in Tier
<1>1. 1 \in Tier
  BY TiersAssumption DEF Tier
<1> QED BY <1>1 DEF NoRow, Row, State, Idle, Job

LEMMA InitIInv == Init => IInv
<1> SUFFICES ASSUME Init PROVE IInv
  OBVIOUS
<1>1. TypeOK
  BY ApprovalTypes DEF Init, TypeOK, Document
<1>2. \A r \in Request : req[r].state = "unused" /\ req[r].tier = 1 /\ lines[r] = {}
  BY DEF Init, NoRow
<1>3. \A d \in Doc : doc[d].confirmed = FALSE
  BY DEF Init
<1>4. \A s \in Worker : job[s].docs = {} /\ job[s].reqs = {}
  BY DEF Init, Idle
<1>5. TiersAreEarned
  BY <1>2, TiersAssumption DEF TiersAreEarned, Tier
<1>6. LiveIsLinked /\ ConfirmedIsApproved /\ CompleteTiersAreLeft
  BY <1>2, <1>3 DEF LiveIsLinked, ConfirmedIsApproved, CompleteTiersAreLeft
<1>7. PendingIsAList /\ LinesArePast
  BY <1>2 DEF PendingIsAList, LinesArePast
<1>8. JobStands
  BY <1>4 DEF JobStands
<1> QED BY <1>1, <1>5, <1>6, <1>7, <1>8 DEF IInv

-----------------------------------------------------------------------------
\* What becomes of a job when another one commits rows, and lines of rs.
Kept(o, rows, rs) ==
  \/ job'[o].docs = {} /\ job'[o].reqs = {}
  \/ /\ job'[o].kind = job[o].kind
     /\ job'[o].docs = job[o].docs
     /\ job'[o].reqs = job[o].reqs
     /\ job'[o].by = job[o].by
     /\ job'[o].tier = job[o].tier
     /\ job'[o].missed = job[o].missed \cup rows
     /\ job'[o].unseen = job[o].unseen \cup rs

LEMMA MissingJobs ==
  ASSUME TypeOK, NEW jobs \in [Worker -> Job],
         \A o \in Worker : jobs[o] = job[o] \/ jobs[o] = Idle,
         NEW rows \in SUBSET (Doc \cup Request), NEW rs \in SUBSET Request,
         job' = Missing(jobs, rows, rs)
  PROVE  /\ job' \in [Worker -> Job]
         /\ \A o \in Worker : Kept(o, rows, rs)
<1> SUFFICES ASSUME NEW o \in Worker PROVE job'[o] \in Job /\ Kept(o, rows, rs)
  BY DEF Missing
<1>1. jobs[o] \in Job
  OBVIOUS
<1>2. CASE jobs[o] = Idle
  <2>1. job'[o] = Idle
    BY <1>2 DEF Missing
  <2>2. job'[o].docs = {} /\ job'[o].reqs = {}
    BY <2>1 DEF Idle
  <2> QED BY <2>1, <2>2, ApprovalTypes DEF Kept
<1>3. CASE jobs[o] # Idle
  <2>1. job'[o] = [jobs[o] EXCEPT !.missed = @ \cup rows, !.unseen = @ \cup rs]
    BY <1>3 DEF Missing
  <2>2. jobs[o] = job[o]
    BY <1>3
  <2>3. job'[o] \in Job
    BY <1>1, <2>1 DEF Job
  <2>4. Kept(o, rows, rs)
    BY <1>1, <2>1, <2>2 DEF Kept, Job
  <2> QED BY <2>3, <2>4
<1> QED BY <1>2, <1>3

LEMMA CommitJobs ==
  ASSUME TypeOK, NEW s \in Worker,
         NEW rows \in SUBSET (Doc \cup Request), NEW rs \in SUBSET Request,
         Commit(s, rows, rs)
  PROVE  /\ job' \in [Worker -> Job]
         /\ \A o \in Worker : Kept(o, rows, rs)
<1> DEFINE jobs == [job EXCEPT ![s] = Idle]
<1>1. jobs \in [Worker -> Job] /\ \A o \in Worker : jobs[o] = job[o] \/ jobs[o] = Idle
  BY ApprovalTypes DEF TypeOK
<1>2. job' = Missing(jobs, rows, rs)
  BY DEF Commit
<1> HIDE DEF jobs
<1> QED BY <1>1, <1>2, MissingJobs

\* What the jobs have decided on stands if they miss every row and line that is written.
LEMMA JobsKeep ==
  ASSUME IInv, NEW rows \in SUBSET (Doc \cup Request), NEW rs \in SUBSET Request,
         \A o \in Worker : Kept(o, rows, rs),
         \A d \in Doc : d \notin rows => (Passes(d)' <=> Passes(d)) /\ Live(d)' = Live(d),
         \A r \in Request : r \notin rows => req'[r] = req[r],
         \A r \in Request : r \notin rs => lines'[r] = lines[r],
         \A r \in Request : r \notin rs => \/ req'[r] = req[r] \/ req'[r].state # "pending"
                                           \/ req[r].state = "unused",
         \A r \in Request :
           /\ lines[r] \subseteq lines'[r]
           /\ req[r].tier <= req'[r].tier
           /\ req[r].state # "unused" => req'[r].state # "unused",
         req' \in [Request -> Row]
  PROVE  JobStands'
<1> SUFFICES ASSUME NEW o \in Worker
             PROVE  /\ \A d \in job'[o].docs \ job'[o].missed : DocStands(job[o], d)'
                    /\ \A r \in job'[o].reqs \ job'[o].missed : RowStands(job[o], r)'
                    /\ \A r \in job'[o].reqs \ job'[o].unseen : WaitStands(job[o], r)'
                    /\ \A r \in job'[o].reqs : job'[o].kind \in {"wait", "advance"} =>
                         req'[r].state # "unused" /\ job'[o].tier <= req'[r].tier
  BY DEF JobStands
<1>1. CASE job'[o].docs = {} /\ job'[o].reqs = {}
  BY <1>1
<1>2. CASE ~(job'[o].docs = {} /\ job'[o].reqs = {})
  <2>1. /\ job'[o].kind = job[o].kind
        /\ job'[o].docs = job[o].docs
        /\ job'[o].reqs = job[o].reqs
        /\ job'[o].by = job[o].by
        /\ job'[o].tier = job[o].tier
        /\ job'[o].missed = job[o].missed \cup rows
        /\ job'[o].unseen = job[o].unseen \cup rs
    BY <1>2 DEF Kept
  <2>2. job[o] \in Job /\ TypeOK /\ JobStands
    BY DEF IInv, TypeOK
  <2>3. job[o].docs \subseteq Doc /\ job[o].reqs \subseteq Request /\ job[o].tier \in Nat
    BY <2>2 DEF Job, Tier
  <2>4. ASSUME NEW d \in job'[o].docs \ job'[o].missed PROVE DocStands(job[o], d)'
    <3>1. d \in Doc /\ d \notin rows /\ DocStands(job[o], d)
      BY <2>1, <2>2, <2>3 DEF JobStands
    <3>2. (Passes(d)' <=> Passes(d)) /\ Live(d)' = Live(d)
      BY <3>1
    <3> QED BY <2>1, <3>1, <3>2 DEF DocStands
  <2>5. ASSUME NEW r \in job'[o].reqs \ job'[o].missed PROVE RowStands(job[o], r)'
    <3>1. r \in Request /\ r \notin rows /\ RowStands(job[o], r)
      BY <2>1, <2>2, <2>3 DEF JobStands
    <3>2. req'[r] = req[r] /\ lines[r] \subseteq lines'[r]
      BY <3>1
    <3>3. Completes(r, job[o].by) => Completes(r, job[o].by)'
      BY <2>1, <3>2 DEF Completes, Approved
    <3> QED BY <2>1, <3>1, <3>2, <3>3 DEF RowStands
  <2>6. ASSUME NEW r \in job'[o].reqs \ job'[o].unseen PROVE WaitStands(job[o], r)'
    <3>1. r \in Request /\ r \notin rs /\ WaitStands(job[o], r)
      BY <2>1, <2>2, <2>3 DEF JobStands
    <3>2. lines'[r] = lines[r]
      BY <3>1
    <3>3. job[o].kind = "wait" => req[r].state # "unused"
      BY <2>1, <2>2 DEF JobStands
    <3>4. job[o].kind = "wait" => req'[r] = req[r] \/ req'[r].state # "pending"
      BY <3>1, <3>3
    <3> QED BY <2>1, <3>1, <3>2, <3>4 DEF WaitStands, Approved
  <2>7. ASSUME NEW r \in job'[o].reqs, job'[o].kind \in {"wait", "advance"}
        PROVE  req'[r].state # "unused" /\ job'[o].tier <= req'[r].tier
    <3>1. r \in Request /\ req[r].state # "unused" /\ job[o].tier <= req[r].tier
      BY <2>1, <2>2, <2>3, <2>7 DEF JobStands
    <3>2. req[r].tier \in Nat /\ req'[r].tier \in Nat
      BY <2>2, <3>1 DEF TypeOK, Row, Tier
    <3> QED BY <2>1, <2>3, <3>1, <3>2
  <2> QED BY <2>4, <2>5, <2>6, <2>7
<1> QED BY <1>1, <1>2

\* Beginning a job disturbs nothing, if what the job has decided on stands.
LEMMA StartIInv ==
  ASSUME IInv, NEW s \in Worker, NEW new \in Job, Start(s, new),
         \A d \in new.docs : DocStands(new, d),
         \A r \in new.reqs :
           /\ RowStands(new, r) /\ WaitStands(new, r)
           /\ new.kind \in {"wait", "advance"} => req[r].state # "unused" /\ new.tier <= req[r].tier
  PROVE  IInv'
<1>1. TypeOK /\ job' = [job EXCEPT ![s] = new] /\ UNCHANGED <<doc, req, lines, overlap>>
  BY DEF IInv, Start
<1>2. TypeOK'
  BY <1>1 DEF TypeOK
<1>3. \A o \in Worker : job'[o] = IF o = s THEN new ELSE job[o]
  BY <1>1 DEF TypeOK
<1>4. JobStands'
  <2> SUFFICES ASSUME NEW o \in Worker
               PROVE  /\ \A d \in job'[o].docs \ job'[o].missed : DocStands(job[o], d)'
                      /\ \A r \in job'[o].reqs \ job'[o].missed : RowStands(job[o], r)'
                      /\ \A r \in job'[o].reqs \ job'[o].unseen : WaitStands(job[o], r)'
                      /\ \A r \in job'[o].reqs : job'[o].kind \in {"wait", "advance"} =>
                           req'[r].state # "unused" /\ job'[o].tier <= req'[r].tier
    BY DEF JobStands
  <2>1. CASE o = s
    <3>1. job'[o] = new
      BY <1>3, <2>1
    <3> QED BY <1>1, <3>1 DEF DocStands, RowStands, WaitStands, Passes, Live, Completes, Approved
  <2>2. CASE o # s
    <3>1. job'[o] = job[o]
      BY <1>3, <2>2
    <3>2. JobStands
      BY DEF IInv
    <3> QED BY <1>1, <3>1, <3>2 DEF JobStands, DocStands, RowStands, WaitStands, Passes, Live,
                                    Completes, Approved
  <2> QED BY <2>1, <2>2
<1>5. TiersAreEarned' /\ LiveIsLinked' /\ ConfirmedIsApproved' /\ CompleteTiersAreLeft'
  BY <1>1 DEF IInv, TiersAreEarned, Earned, Approved, LiveIsLinked, ConfirmedIsApproved, Passes,
              CompleteTiersAreLeft
<1>6. PendingIsAList' /\ LinesArePast'
  BY <1>1 DEF IInv, PendingIsAList, LinesArePast
<1> QED BY <1>2, <1>4, <1>5, <1>6 DEF IInv

-----------------------------------------------------------------------------
\* What an advance or an escalation makes of a pending request.
Climbs(r) ==
  /\ req[r].state = "pending" /\ req'[r].doc = req[r].doc
  /\ \/ /\ req'[r].state = "approved" /\ req[r].tier = Tiers /\ req'[r].tier = req[r].tier
     \/ /\ req'[r].state = "pending" /\ req'[r].tier = req[r].tier
        /\ req'[r].pending = {Fallback[req[r].tier]}
     \/ /\ req'[r].state = "pending" /\ req'[r].tier = req[r].tier + 1
        /\ req'[r].tier \in Unsound \/ req'[r].pending \in Resolved(req'[r].tier)

\* A tier stays earned when lines are added.
LEMMA EarnedGrows ==
  ASSUME NEW r \in Request, NEW t \in Tier, lines[r] \subseteq lines'[r], Earned(r, t)
  PROVE  Earned(r, t)'
BY DEF Earned, Approved

\* Requests that climb tiers they have earned, and documents that are granted, keep the
\* invariant.
LEMMA ClimbIInv ==
  ASSUME IInv, NEW s \in Worker, NEW acted \in SUBSET Request, NEW final \in SUBSET acted,
         \A r \in acted : Climbs(r) /\ (r \in final <=> req'[r].state = "approved"),
         \A r \in Request : r \notin acted => req'[r] = req[r] /\ lines'[r] = lines[r],
         req' \in [Request -> Row],
         lines' \in [Request -> SUBSET (Tier \X (User \cup {Root}))],
         \A r \in acted :
           /\ lines[r] \subseteq lines'[r]
           /\ \A t \in Tier, u \in User \cup {Root} :
                <<t, u>> \in lines'[r] => <<t, u>> \in lines[r] \/ t = req[r].tier
           /\ \A t \in Tier \ Unsound :
                t = req[r].tier => \/ req'[r].state = "pending" /\ req'[r].tier = req[r].tier
                                   \/ Earned(r, t)',
         NEW docs \in SUBSET Touched(final), Granted(docs),
         Commit(s, acted \cup Touched(final), acted), UNCHANGED overlap
  PROVE  IInv'
<1> DEFINE rows == acted \cup Touched(final)
<1>1. /\ TypeOK /\ TiersAreEarned /\ LiveIsLinked /\ ConfirmedIsApproved
      /\ CompleteTiersAreLeft /\ PendingIsAList /\ LinesArePast /\ JobStands
  BY DEF IInv
<1>2. rows \in SUBSET (Doc \cup Request)
  BY DEF Touched
<1>3. /\ job' \in [Worker -> Job] /\ \A o \in Worker : Kept(o, rows, acted)
  BY <1>1, <1>2, CommitJobs
<1>4. \A r \in Request : req[r] \in Row /\ req[r].tier \in Nat /\ req[r].tier \in Tier
  BY <1>1 DEF TypeOK, Row, Tier
<1>5. \A d \in Doc : /\ doc[d] \in Document
                     /\ doc'[d] = IF d \in docs THEN [doc[d] EXCEPT !.confirmed = TRUE] ELSE doc[d]
  BY <1>1 DEF TypeOK, Granted
<1>6. \A d \in Doc : /\ doc'[d] \in Document /\ doc'[d].linked = doc[d].linked
                     /\ doc'[d].confirmed => doc[d].confirmed \/ d \in docs
  BY <1>5 DEF Document
<1>7. TypeOK'
  <2>1. doc' \in [Doc -> Document]
    BY <1>6 DEF Granted
  <2>2. overlap' \in SUBSET Request
    BY <1>1 DEF TypeOK
  <2> QED BY <1>3, <2>1, <2>2 DEF TypeOK
<1>8. \A r \in Request :
        /\ lines[r] \subseteq lines'[r]
        /\ req[r].tier <= req'[r].tier
        /\ req[r].state # "unused" => req'[r].state # "unused"
  BY <1>4 DEF Climbs
<1>9. \A r \in Request : req'[r].state = "pending" => /\ req[r].state = "pending"
                                                      /\ req'[r].doc = req[r].doc
  BY DEF Climbs
<1>10. TiersAreEarned'
  <2> SUFFICES ASSUME NEW r \in Request, NEW t \in Tier, t \notin Unsound,
                      req'[r].state = "approved" \/ t < req'[r].tier
               PROVE  Earned(r, t)'
    BY DEF TiersAreEarned
  <2>1. CASE req[r].state = "approved" \/ t < req[r].tier
    <3>1. Earned(r, t)
      BY <1>1, <2>1 DEF TiersAreEarned
    <3> QED BY <1>8, <3>1, EarnedGrows
  <2>2. CASE ~(req[r].state = "approved" \/ t < req[r].tier)
    <3>1. r \in acted
      BY <2>2
    <3>2. t \in Nat /\ t <= Tiers /\ Tiers \in Nat
      BY TiersAssumption DEF Tier
    <3>3. t = req[r].tier
      BY <1>4, <2>2, <3>1, <3>2 DEF Climbs
    <3>4. ~(req'[r].state = "pending" /\ req'[r].tier = req[r].tier)
      BY <2>2, <3>1 DEF Climbs
    <3> QED BY <3>1, <3>3, <3>4
  <2> QED BY <2>1, <2>2
<1>11. LiveIsLinked'
  <2> SUFFICES ASSUME NEW r \in Request, req'[r].state = "pending"
               PROVE  doc'[req'[r].doc].linked = r
    BY DEF LiveIsLinked
  <2>1. /\ req[r].state = "pending" /\ req'[r].doc = req[r].doc /\ req[r].doc \in Doc
        /\ doc[req[r].doc].linked = r
    BY <1>1, <1>9 DEF LiveIsLinked, PendingIsAList
  <2> QED BY <1>6, <2>1
<1>12. \A d \in Doc : /\ Passes(d) => Passes(d)'
                      /\ d \in Touched(final) => Passes(d)'
                      /\ d \notin Touched(final) => (Passes(d)' <=> Passes(d))
  <2> SUFFICES ASSUME NEW d \in Doc
               PROVE  /\ Passes(d) => Passes(d)'
                      /\ d \in Touched(final) => Passes(d)'
                      /\ d \notin Touched(final) => (Passes(d)' <=> Passes(d))
    OBVIOUS
  <2>1. doc'[d].linked = doc[d].linked /\ doc[d].linked \in Request \cup {None}
    BY <1>5, <1>6 DEF Document
  <2>2. CASE doc[d].linked \notin Request
    BY <2>1, <2>2, UserAssumption DEF Passes, Touched
  <2>3. CASE doc[d].linked \in Request
    <3>1. doc[d].linked # None
      BY <2>3, UserAssumption
    <3>2. CASE doc[d].linked \in acted
      BY <2>1, <3>1, <3>2 DEF Passes, Touched, Climbs
    <3>3. CASE doc[d].linked \notin acted
      BY <2>1, <2>3, <3>1, <3>3 DEF Passes, Touched
    <3> QED BY <3>2, <3>3
  <2> QED BY <2>2, <2>3
<1>13. ConfirmedIsApproved'
  <2> SUFFICES ASSUME NEW d \in Doc, doc'[d].confirmed PROVE Passes(d)'
    BY DEF ConfirmedIsApproved
  <2>1. doc[d].confirmed \/ d \in Touched(final)
    BY <1>6
  <2> QED BY <1>1, <1>12, <2>1 DEF ConfirmedIsApproved
<1>14. CompleteTiersAreLeft'
  <2> SUFFICES ASSUME NEW r \in Request,
                      req'[r].state = "pending", req'[r].tier \in RequireAll,
                      req'[r].pending # {},
                      req'[r].pending \subseteq {u \in User : <<req'[r].tier, u>> \in lines'[r]}
               PROVE  r \in overlap \/ req'[r].pending = {Fallback[req'[r].tier]}
    BY DEF CompleteTiersAreLeft, Approved
  <2>1. CASE r \notin acted
    <3>1. req'[r] = req[r] /\ lines'[r] = lines[r]
      BY <2>1
    <3> QED BY <1>1, <3>1 DEF CompleteTiersAreLeft, Approved
  <2>2. CASE r \in acted /\ req'[r].tier = req[r].tier
    BY <1>4, <2>2 DEF Climbs
  <2>3. CASE r \in acted /\ req'[r].tier = req[r].tier + 1
    <3>1. PICK u \in req'[r].pending : TRUE
      OBVIOUS
    <3>2. u \in User /\ <<req'[r].tier, u>> \in lines'[r]
      BY <3>1
    <3>3. req'[r].tier \in Tier
      BY DEF Row
    <3>4. <<req'[r].tier, u>> \in lines[r]
      BY <1>4, <2>3, <3>2, <3>3
    <3>5. req'[r].tier <= req[r].tier
      BY <1>1, <3>2, <3>3, <3>4 DEF LinesArePast
    <3> QED BY <1>4, <2>3, <3>5
  <2> QED BY <2>1, <2>2, <2>3 DEF Climbs
<1>15. PendingIsAList'
  <2> SUFFICES ASSUME NEW r \in Request
               PROVE  /\ req'[r].state # "unused" => req'[r].doc \in Doc
                      /\ req'[r].state = "pending" =>
                           req'[r].tier \in Unsound \/ req'[r].pending \in Lists(req'[r].tier)
                      /\ req'[r].state = "unused" => req'[r].tier = 1
    BY DEF PendingIsAList
  <2>1. CASE r \notin acted
    <3>1. req'[r] = req[r]
      BY <2>1
    <3> QED BY <1>1, <3>1 DEF PendingIsAList
  <2>2. CASE r \in acted
    <3>1. req[r].doc \in Doc /\ req'[r].doc = req[r].doc
      BY <1>1, <2>2 DEF PendingIsAList, Climbs
    <3>2. Climbs(r)
      BY <2>2
    <3> QED BY <3>1, <3>2 DEF Climbs, Lists
  <2> QED BY <2>1, <2>2
<1>16. LinesArePast'
  <2> SUFFICES ASSUME NEW r \in Request
               PROVE  /\ \A t \in Tier, u \in User \cup {Root} :
                           <<t, u>> \in lines'[r] => t <= req'[r].tier
                      /\ req'[r].state = "unused" => lines'[r] = {}
    BY DEF LinesArePast
  <2>1. CASE r \notin acted
    <3>1. req'[r] = req[r] /\ lines'[r] = lines[r]
      BY <2>1
    <3> QED BY <1>1, <3>1 DEF LinesArePast
  <2>2. CASE r \in acted
    <3>1. req'[r].state # "unused"
      BY <2>2 DEF Climbs
    <3>2. ASSUME NEW t \in Tier, NEW u \in User \cup {Root}, <<t, u>> \in lines'[r]
          PROVE  t <= req'[r].tier
      <4>1. t <= req[r].tier
        BY <1>1, <1>4, <2>2, <3>2 DEF LinesArePast
      <4>2. t \in Nat /\ req'[r].tier \in Nat
        BY DEF Row, Tier
      <4> QED BY <1>4, <1>8, <4>1, <4>2
    <3> QED BY <3>1, <3>2
  <2> QED BY <2>1, <2>2
<1>17. \A d \in Doc : d \notin rows => Live(d)' = Live(d)
  <2> SUFFICES ASSUME NEW d \in Doc, d \notin Touched(final), NEW r \in Request
               PROVE  (req'[r].state = "pending" /\ req'[r].doc = d)
                        <=> (req[r].state = "pending" /\ req[r].doc = d)
    BY DEF Live
  <2>1. CASE r \in final
    <3>1. req[r].state = "pending" /\ req'[r].state = "approved"
      BY <2>1 DEF Climbs
    <3>2. doc[req[r].doc].linked = r
      BY <1>1, <3>1 DEF LiveIsLinked
    <3> QED BY <2>1, <3>1, <3>2 DEF Touched
  <2>2. CASE r \notin final
    BY <2>2 DEF Climbs
  <2> QED BY <2>1, <2>2
<1>18. JobStands'
  <2>1. \A d \in Doc : d \notin rows => (Passes(d)' <=> Passes(d)) /\ Live(d)' = Live(d)
    BY <1>12, <1>17
  <2>2. \A r \in Request : r \notin rows => req'[r] = req[r]
    OBVIOUS
  <2>3. /\ \A r \in Request : r \notin acted => lines'[r] = lines[r]
        /\ \A r \in Request : r \notin acted => \/ req'[r] = req[r] \/ req'[r].state # "pending"
                                                \/ req[r].state = "unused"
    OBVIOUS
  <2> HIDE DEF rows
  <2> QED BY <1>2, <1>3, <1>8, <2>1, <2>2, <2>3, JobsKeep
<1> QED BY <1>7, <1>10, <1>11, <1>13, <1>14, <1>15, <1>16, <1>18 DEF IInv

-----------------------------------------------------------------------------
\* A document that passes may be confirmed, and any may go back to draft.
LEMMA DocumentIInv ==
  ASSUME IInv, NEW d \in Doc, NEW b \in BOOLEAN, b => Passes(d),
         doc' = [doc EXCEPT ![d].confirmed = b],
         job' \in [Worker -> Job], \A o \in Worker : Kept(o, {d}, {}),
         UNCHANGED <<req, lines, overlap>>
  PROVE  IInv'
<1>1. /\ TypeOK /\ TiersAreEarned /\ LiveIsLinked /\ ConfirmedIsApproved
      /\ CompleteTiersAreLeft /\ PendingIsAList /\ LinesArePast /\ JobStands
  BY DEF IInv
<1>2. \A e \in Doc : doc[e] \in Document /\ doc'[e] = IF e = d THEN [doc[d] EXCEPT !.confirmed = b]
                                                             ELSE doc[e]
  BY <1>1 DEF TypeOK
<1>3. \A e \in Doc : /\ doc'[e] \in Document /\ doc'[e].linked = doc[e].linked
                     /\ doc'[e].confirmed = IF e = d THEN b ELSE doc[e].confirmed
  BY <1>2 DEF Document
<1>4. TypeOK'
  <2>1. doc' \in [Doc -> Document]
    BY <1>1, <1>3 DEF TypeOK
  <2> QED BY <1>1, <2>1 DEF TypeOK
<1>5. \A e \in Doc : (Passes(e)' <=> Passes(e)) /\ Live(e)' = Live(e)
  BY <1>3 DEF Passes, Live
<1>6. ConfirmedIsApproved'
  BY <1>1, <1>3, <1>5 DEF ConfirmedIsApproved
<1>7. LiveIsLinked'
  BY <1>1, <1>3 DEF LiveIsLinked, PendingIsAList
<1>8. TiersAreEarned' /\ CompleteTiersAreLeft' /\ PendingIsAList' /\ LinesArePast'
  BY <1>1 DEF TiersAreEarned, Earned, Approved, CompleteTiersAreLeft, PendingIsAList, LinesArePast
<1>9. \A r \in Request : /\ lines[r] \subseteq lines'[r]
                         /\ req[r].tier <= req'[r].tier
                         /\ req[r].state # "unused" => req'[r].state # "unused"
  <2>1. \A r \in Request : req[r].tier \in Nat
    BY <1>1 DEF TypeOK, Row, Tier
  <2> QED BY <2>1
<1>10. req' \in [Request -> Row]
  BY <1>1 DEF TypeOK
<1>11. JobStands'
  <2> DEFINE rows == {d}
  <2> DEFINE rs == {}
  <2>1. rows \in SUBSET (Doc \cup Request) /\ rs \in SUBSET Request
    OBVIOUS
  <2>2. \A o \in Worker : Kept(o, rows, rs)
    OBVIOUS
  <2> HIDE DEF rows, rs
  <2> QED BY <1>5, <1>9, <1>10, <2>1, <2>2, JobsKeep
<1> QED BY <1>4, <1>6, <1>7, <1>8, <1>11 DEF IInv

LEMMA ProceedIInv ==
  ASSUME IInv, NEW s \in Worker, NEW d \in Doc, EndProceed(s, d)
  PROVE  IInv'
<1>1. TypeOK /\ JobStands
  BY DEF IInv
<1>2. Passes(d)
  BY <1>1 DEF EndProceed, Unmissed, JobStands, DocStands
<1>3. job' \in [Worker -> Job] /\ \A o \in Worker : Kept(o, {d}, {})
  <2> DEFINE rows == {d}
  <2> DEFINE rs == {}
  <2>1. rows \in SUBSET (Doc \cup Request) /\ rs \in SUBSET Request /\ Commit(s, rows, rs)
    BY DEF EndProceed
  <2>2. job' \in [Worker -> Job] /\ \A o \in Worker : Kept(o, rows, rs)
    <3> HIDE DEF rows, rs
    <3> QED BY <1>1, <2>1, CommitJobs
  <2> QED BY <2>2
<1>4. doc' = [doc EXCEPT ![d].confirmed = TRUE] /\ UNCHANGED <<req, lines, overlap>>
  BY DEF EndProceed
<1> QED BY <1>2, <1>3, <1>4, DocumentIInv

LEMMA RedraftIInv ==
  ASSUME IInv, NEW d \in Doc, Redraft(d)
  PROVE  IInv'
<1>1. TypeOK
  BY DEF IInv
<1>2. job' \in [Worker -> Job] /\ \A o \in Worker : Kept(o, {d}, {})
  <2> DEFINE rows == {d}
  <2> DEFINE rs == {}
  <2>1. /\ rows \in SUBSET (Doc \cup Request) /\ rs \in SUBSET Request /\ job' = Missing(job, rows, rs)
        /\ job \in [Worker -> Job] /\ \A o \in Worker : job[o] = job[o] \/ job[o] = Idle
    BY <1>1 DEF Redraft, TypeOK
  <2>2. job' \in [Worker -> Job] /\ \A o \in Worker : Kept(o, rows, rs)
    <3> HIDE DEF rows, rs
    <3> QED BY <1>1, <2>1, MissingJobs
  <2> QED BY <2>2
<1>3. doc' = [doc EXCEPT ![d].confirmed = FALSE] /\ UNCHANGED <<req, lines, overlap>>
  BY DEF Redraft
<1> QED BY <1>2, <1>3, DocumentIInv

-----------------------------------------------------------------------------
LEMMA BeginConfirmIInv ==
  ASSUME IInv, NEW s \in Worker, NEW d \in Doc, BeginConfirm(s, d)
  PROVE  IInv'
<1> DEFINE proceed == [Idle EXCEPT !.kind = "proceed", !.docs = {d}]
<1> DEFINE submit  == [Idle EXCEPT !.kind = "submit", !.docs = {d}, !.reqs = Live(d)]
<1>1. LiveIsLinked /\ PendingIsAList
  BY DEF IInv
<1>2. CASE Passes(d) /\ Start(s, proceed)
  <2>1. proceed \in Job /\ proceed.docs = {d} /\ proceed.reqs = {} /\ proceed.kind = "proceed"
    BY ApprovalTypes DEF Idle, Job
  <2>2. \A e \in proceed.docs : DocStands(proceed, e)
    BY <1>2, <2>1 DEF DocStands
  <2> HIDE DEF proceed
  <2> QED BY <1>2, <2>1, <2>2, StartIInv
<1>3. CASE ~Passes(d) /\ Start(s, submit)
  <2>1. submit \in Job /\ submit.docs = {d} /\ submit.reqs = Live(d) /\ submit.kind = "submit"
    BY ApprovalTypes DEF Idle, Job, Live
  <2> HIDE DEF submit
  <2>2. \A e \in submit.docs : DocStands(submit, e)
    <3>1. DocStands(submit, d)
      BY <1>3, <2>1 DEF DocStands
    <3> QED BY <2>1, <3>1
  <2>3. \A r \in submit.reqs : RowStands(submit, r) /\ WaitStands(submit, r)
    BY <2>1 DEF RowStands, WaitStands
  <2> QED BY <1>3, <2>1, <2>2, <2>3, StartIInv
<1> QED BY <1>2, <1>3 DEF BeginConfirm

LEMMA BeginApproveIInv ==
  ASSUME IInv, NEW s \in Worker, NEW r \in Request, NEW u \in User, BeginApprove(s, r, u)
  PROVE  IInv'
<1> DEFINE new == [Idle EXCEPT !.kind = IF Completes(r, u) THEN "advance" ELSE "wait",
                               !.reqs = {r}, !.by = u, !.tier = req[r].tier]
<1>1. req[r] \in Row /\ req[r].tier \in Tier /\ req[r].tier \in Nat
  BY DEF IInv, TypeOK, Row, Tier
<1>2. /\ new \in Job /\ new.docs = {} /\ new.reqs = {r} /\ new.by = u /\ new.tier = req[r].tier
      /\ new.kind = IF Completes(r, u) THEN "advance" ELSE "wait"
  BY <1>1 DEF Idle, Job
<1>3. req[r].state = "pending" /\ u \in req[r].pending /\ Start(s, new)
  BY DEF BeginApprove
<1>4. RowStands(new, r) /\ WaitStands(new, r)
  <2> HIDE DEF new
  <2> QED BY <1>2, <1>3 DEF RowStands, WaitStands, Completes
<1> HIDE DEF new
<1> QED BY <1>1, <1>2, <1>3, <1>4, StartIInv

LEMMA BeginOthersIInv ==
  ASSUME IInv, NEW s \in Worker, NEW rs \in SUBSET Request,
         NEW kind \in {"reject", "cancel", "sweep"},
         \A r \in rs : req[r].state = "pending",
         Start(s, [Idle EXCEPT !.kind = kind, !.reqs = rs])
  PROVE  IInv'
<1> DEFINE new == [Idle EXCEPT !.kind = kind, !.reqs = rs]
<1>1. new \in Job /\ new.docs = {} /\ new.reqs = rs /\ new.kind = kind
  BY ApprovalTypes DEF Idle, Job
<1>2. \A r \in rs : RowStands(new, r) /\ WaitStands(new, r)
  <2> HIDE DEF new
  <2> QED BY <1>1 DEF RowStands, WaitStands
<1> HIDE DEF new
<1> QED BY <1>1, <1>2, StartIInv DEF new

LEMMA AbortIInv ==
  ASSUME IInv, NEW s \in Worker, Abort(s)
  PROVE  IInv'
<1>1. TypeOK /\ job' = [job EXCEPT ![s] = Idle] /\ UNCHANGED <<doc, req, lines, overlap>>
  BY DEF IInv, Abort
<1>2. TypeOK'
  BY <1>1, ApprovalTypes DEF TypeOK
<1>3. \A o \in Worker : job'[o] = IF o = s THEN Idle ELSE job[o]
  BY <1>1 DEF TypeOK
<1>4. JobStands'
  <2>1. \A o \in Worker : \/ job'[o].docs = {} /\ job'[o].reqs = {}
                          \/ job'[o] = job[o]
    BY <1>3 DEF Idle
  <2> QED BY <1>1, <2>1 DEF IInv, JobStands, DocStands, RowStands, WaitStands, Passes, Live,
                            Completes, Approved
<1>5. TiersAreEarned' /\ LiveIsLinked' /\ ConfirmedIsApproved' /\ CompleteTiersAreLeft'
  BY <1>1 DEF IInv, TiersAreEarned, Earned, Approved, LiveIsLinked, ConfirmedIsApproved, Passes,
              CompleteTiersAreLeft
<1>6. PendingIsAList' /\ LinesArePast'
  BY <1>1 DEF IInv, PendingIsAList, LinesArePast
<1> QED BY <1>2, <1>4, <1>5, <1>6 DEF IInv

-----------------------------------------------------------------------------
LEMMA SubmitIInv ==
  ASSUME IInv, NEW s \in Worker, NEW d \in Doc, EndSubmit(s, d)
  PROVE  IInv'
<1>1. /\ TypeOK /\ TiersAreEarned /\ LiveIsLinked /\ ConfirmedIsApproved
      /\ CompleteTiersAreLeft /\ PendingIsAList /\ LinesArePast /\ JobStands
  BY DEF IInv
<1>2. ~Passes(d) /\ Live(d) = job[s].reqs /\ doc[d].confirmed = FALSE
  <2>1. d \in job[s].docs \ job[s].missed /\ job[s].kind = "submit"
    BY DEF EndSubmit, Unmissed
  <2>2. DocStands(job[s], d)
    BY <1>1, <2>1 DEF JobStands
  <2>3. doc[d].confirmed \in BOOLEAN
    BY <1>1 DEF TypeOK, Document
  <2> QED BY <1>1, <2>1, <2>2, <2>3 DEF DocStands, ConfirmedIsApproved
<1>3. PICK r \in Request :
        /\ \/ r \in job[s].reqs /\ req' = req
           \/ /\ job[s].reqs = {} /\ req[r].state = "unused"
              /\ \E list \in Resolved(1) :
                   req' = [req EXCEPT ![r] =
                            [state |-> "pending", doc |-> d, tier |-> 1, pending |-> list]]
        /\ doc' = [doc EXCEPT ![d].linked = r]
        /\ Commit(s, {d, r}, {}) /\ UNCHANGED <<lines, overlap>>
  BY DEF EndSubmit
<1> DEFINE rows == {d, r}
<1> DEFINE rs == {}
<1>4. rows \in SUBSET (Doc \cup Request) /\ rs \in SUBSET Request /\ Commit(s, rows, rs)
  BY <1>3
<1>5. job' \in [Worker -> Job] /\ \A o \in Worker : Kept(o, rows, rs)
  <2> HIDE DEF rows, rs
  <2> QED BY <1>1, <1>4, CommitJobs
<1>6. \A e \in Doc : doc[e] \in Document /\ doc'[e] = IF e = d THEN [doc[d] EXCEPT !.linked = r]
                                                             ELSE doc[e]
  BY <1>1, <1>3 DEF TypeOK
<1>7. \A e \in Doc : /\ doc'[e] \in Document /\ doc'[e].confirmed = doc[e].confirmed
                     /\ doc'[e].linked = IF e = d THEN r ELSE doc[e].linked
  BY <1>6 DEF Document
<1>8. /\ \A x \in Request : x # r => req'[x] = req[x]
      /\ req'[r].state = "pending" /\ req'[r].doc = d /\ req'[r].tier \in Nat
      /\ req'[r] = req[r] \/ /\ req[r].state = "unused" /\ req'[r].tier = 1
                             /\ req'[r].pending \in Resolved(1) /\ Live(d) = {}
      /\ req' \in [Request -> Row]
  <2>1. CASE r \in job[s].reqs /\ req' = req
    <3>1. req[r].state = "pending" /\ req[r].doc = d
      BY <1>2, <2>1 DEF Live
    <3>2. req[r].tier \in Nat
      BY <1>1 DEF TypeOK, Row, Tier
    <3> QED BY <1>1, <2>1, <3>1, <3>2 DEF TypeOK
  <2>2. CASE /\ job[s].reqs = {} /\ req[r].state = "unused"
             /\ \E list \in Resolved(1) :
                  req' = [req EXCEPT ![r] =
                           [state |-> "pending", doc |-> d, tier |-> 1, pending |-> list]]
    <3>1. PICK list \in Resolved(1) :
            req' = [req EXCEPT ![r] = [state |-> "pending", doc |-> d, tier |-> 1, pending |-> list]]
      BY <2>2
    <3> DEFINE row == [state |-> "pending", doc |-> d, tier |-> 1, pending |-> list]
    <3>2. list \subseteq User
      BY ApprovalTypes, UserAssumption DEF Resolved
    <3>3. row \in Row /\ row.state = "pending" /\ row.doc = d /\ row.tier = 1 /\ row.pending = list
      BY <3>2, ApprovalTypes DEF Row, State
    <3>4. req' = [req EXCEPT ![r] = row]
      BY <3>1
    <3> HIDE DEF row
    <3>5. req' \in [Request -> Row] /\ req'[r] = row /\ \A x \in Request : x # r => req'[x] = req[x]
      BY <1>1, <3>3, <3>4 DEF TypeOK
    <3> QED BY <1>2, <2>2, <3>3, <3>5
  <2> QED BY <1>3, <2>1, <2>2
<1>9. req'[r] = req[r] \/ req[r].state = "unused"
  BY <1>8
<1>10. TypeOK'
  <2>1. doc' \in [Doc -> Document]
    BY <1>1, <1>3, <1>7 DEF TypeOK
  <2> QED BY <1>1, <1>3, <1>5, <1>8, <2>1 DEF TypeOK
<1>11. TiersAreEarned'
  <2> SUFFICES ASSUME NEW x \in Request, NEW t \in Tier, t \notin Unsound,
                      req'[x].state = "approved" \/ t < req'[x].tier
               PROVE  Earned(x, t)'
    BY DEF TiersAreEarned
  <2>1. CASE req'[x] = req[x]
    BY <1>1, <1>3, <2>1 DEF TiersAreEarned, Earned, Approved
  <2>2. CASE req'[x] # req[x]
    <3>1. x = r /\ req'[r].tier = 1 /\ req'[r].state = "pending"
      BY <1>8, <2>2
    <3> QED BY <3>1, TiersAssumption DEF Tier
  <2> QED BY <2>1, <2>2
<1>12. LiveIsLinked'
  <2> SUFFICES ASSUME NEW x \in Request, req'[x].state = "pending"
               PROVE  doc'[req'[x].doc].linked = x
    BY DEF LiveIsLinked
  <2>1. CASE x = r
    BY <1>7, <1>8, <2>1
  <2>2. CASE x # r
    <3>1. /\ req'[x] = req[x] /\ req[x].state = "pending" /\ req[x].doc \in Doc
          /\ doc[req[x].doc].linked = x
      BY <1>1, <1>8, <2>2 DEF LiveIsLinked, PendingIsAList
    <3>2. req[x].doc # d
      <4>1. SUFFICES ASSUME req[x].doc = d PROVE FALSE
        OBVIOUS
      <4>2. x \in Live(d)
        BY <3>1, <4>1 DEF Live
      <4>3. req'[r] = req[r]
        BY <1>8, <4>2
      <4>4. doc[d].linked = r
        BY <1>1, <1>8, <4>3 DEF LiveIsLinked
      <4> QED BY <2>2, <3>1, <4>1, <4>4
    <3> QED BY <1>7, <3>1, <3>2
  <2> QED BY <2>1, <2>2
<1>13. \A e \in Doc : e # d => (Passes(e)' <=> Passes(e)) /\ Live(e)' = Live(e)
  <2> SUFFICES ASSUME NEW e \in Doc, e # d
               PROVE  (Passes(e)' <=> Passes(e)) /\ Live(e)' = Live(e)
    OBVIOUS
  <2>1. doc'[e].linked = doc[e].linked /\ doc[e].linked \in Request \cup {None}
    BY <1>6, <1>7 DEF Document
  <2>2. Passes(e)' <=> Passes(e)
    <3>1. CASE doc[e].linked = r
      BY <1>8, <2>1, <3>1 DEF Passes
    <3>2. CASE doc[e].linked # r
      BY <1>8, <2>1, <3>2 DEF Passes
    <3> QED BY <3>1, <3>2
  <2>3. Live(e)' = Live(e)
    <3> SUFFICES ASSUME NEW x \in Request
                 PROVE  (req'[x].state = "pending" /\ req'[x].doc = e)
                          <=> (req[x].state = "pending" /\ req[x].doc = e)
      BY DEF Live
    <3> QED BY <1>8
  <2> QED BY <2>2, <2>3
<1>14. ConfirmedIsApproved'
  BY <1>1, <1>2, <1>7, <1>13 DEF ConfirmedIsApproved
<1>15. CompleteTiersAreLeft'
  <2> SUFFICES ASSUME NEW x \in Request,
                      req'[x].state = "pending", req'[x].tier \in RequireAll,
                      req'[x].pending # {},
                      req'[x].pending \subseteq {u \in User : <<req'[x].tier, u>> \in lines'[x]}
               PROVE  x \in overlap' \/ req'[x].pending = {Fallback[req'[x].tier]}
    BY DEF CompleteTiersAreLeft, Approved
  <2>1. CASE req'[x] = req[x]
    BY <1>1, <1>3, <2>1 DEF CompleteTiersAreLeft, Approved
  <2>2. CASE req'[x] # req[x]
    <3>1. req[x].state = "unused"
      BY <1>8, <2>2
    <3>2. lines'[x] = {}
      BY <1>1, <1>3, <3>1 DEF LinesArePast
    <3> QED BY <3>2
  <2> QED BY <2>1, <2>2
<1>16. PendingIsAList' /\ LinesArePast'
  <2> SUFFICES ASSUME NEW x \in Request
               PROVE  /\ req'[x].state # "unused" => req'[x].doc \in Doc
                      /\ req'[x].state = "pending" =>
                           req'[x].tier \in Unsound \/ req'[x].pending \in Lists(req'[x].tier)
                      /\ req'[x].state = "unused" => req'[x].tier = 1
                      /\ \A t \in Tier, u \in User \cup {Root} :
                           <<t, u>> \in lines'[x] => t <= req'[x].tier
                      /\ req'[x].state = "unused" => lines'[x] = {}
    BY DEF PendingIsAList, LinesArePast
  <2>1. CASE req'[x] = req[x]
    BY <1>1, <1>3, <2>1 DEF PendingIsAList, LinesArePast
  <2>2. CASE req'[x] # req[x]
    <3>1. x = r /\ req[x].state = "unused" /\ req'[x].tier = 1 /\ req'[x].pending \in Resolved(1)
      BY <1>8, <2>2
    <3>2. lines'[x] = {}
      BY <1>1, <1>3, <3>1 DEF LinesArePast
    <3> QED BY <1>8, <3>1, <3>2 DEF Lists
  <2> QED BY <2>1, <2>2
<1>17. JobStands'
  <2>1. \A e \in Doc : e \notin rows => (Passes(e)' <=> Passes(e)) /\ Live(e)' = Live(e)
    BY <1>13
  <2>2. \A x \in Request : x \notin rows => req'[x] = req[x]
    BY <1>8
  <2>3. /\ \A x \in Request : x \notin rs => lines'[x] = lines[x]
        /\ \A x \in Request : x \notin rs => \/ req'[x] = req[x] \/ req'[x].state # "pending"
                                             \/ req[x].state = "unused"
    BY <1>3, <1>8
  <2>4. \A x \in Request : /\ lines[x] \subseteq lines'[x]
                           /\ req[x].tier <= req'[x].tier
                           /\ req[x].state # "unused" => req'[x].state # "unused"
    <3> SUFFICES ASSUME NEW x \in Request
                 PROVE  /\ req[x].tier <= req'[x].tier
                        /\ req[x].state # "unused" => req'[x].state # "unused"
      BY <1>3
    <3>1. req[x].tier \in Nat
      BY <1>1 DEF TypeOK, Row, Tier
    <3>2. req[x].state = "unused" => req[x].tier = 1
      BY <1>1 DEF PendingIsAList
    <3> QED BY <1>8, <3>1, <3>2
  <2>5. req' \in [Request -> Row]
    BY <1>8
  <2> HIDE DEF rows, rs
  <2> QED BY <1>4, <1>5, <2>5, <2>1, <2>2, <2>3, <2>4, JobsKeep
<1> QED BY <1>10, <1>11, <1>12, <1>14, <1>15, <1>16, <1>17 DEF IInv

LEMMA WaitIInv ==
  ASSUME IInv, NEW s \in Worker, NEW r \in Request, EndWait(s, r)
  PROVE  IInv'
<1> DEFINE line == <<job[s].tier, job[s].by>>
<1> DEFINE rows == {}
<1> DEFINE rs == {r}
<1>1. /\ TypeOK /\ TiersAreEarned /\ LiveIsLinked /\ ConfirmedIsApproved
      /\ CompleteTiersAreLeft /\ PendingIsAList /\ LinesArePast /\ JobStands
  BY DEF IInv
<1>2. /\ job[s].kind = "wait" /\ job[s].reqs = {r}
      /\ lines' = [lines EXCEPT ![r] = @ \cup {line}]
      /\ overlap' = IF r \in job[s].unseen THEN overlap \cup {r} ELSE overlap
      /\ Commit(s, rows, rs) /\ UNCHANGED <<doc, req>>
  BY DEF EndWait
<1>3. job[s].tier \in Tier /\ job[s].by \in User \cup {Root}
  BY <1>1 DEF TypeOK, Job
<1>4. rows \in SUBSET (Doc \cup Request) /\ rs \in SUBSET Request
  OBVIOUS
<1>5. job' \in [Worker -> Job] /\ \A o \in Worker : Kept(o, rows, rs)
  <2> HIDE DEF rows, rs
  <2> QED BY <1>1, <1>2, <1>4, CommitJobs
<1>6. \A x \in Request : lines'[x] = IF x = r THEN lines[r] \cup {line} ELSE lines[x]
  BY <1>1, <1>2 DEF TypeOK
<1>7. TypeOK'
  <2>1. lines' \in [Request -> SUBSET (Tier \X (User \cup {Root}))]
    BY <1>1, <1>2, <1>3 DEF TypeOK
  <2> QED BY <1>1, <1>2, <1>5, <2>1 DEF TypeOK
<1>8. \A x \in Request : /\ lines[x] \subseteq lines'[x]
                         /\ req[x].tier <= req'[x].tier
                         /\ req[x].state # "unused" => req'[x].state # "unused"
  <2>1. \A x \in Request : req[x].tier \in Nat
    BY <1>1 DEF TypeOK, Row, Tier
  <2> QED BY <1>2, <1>6, <2>1
<1>9. TiersAreEarned'
  <2> SUFFICES ASSUME NEW x \in Request, NEW t \in Tier, t \notin Unsound,
                      req[x].state = "approved" \/ t < req[x].tier
               PROVE  Earned(x, t)'
    BY <1>2 DEF TiersAreEarned
  <2> QED BY <1>1, <1>8, EarnedGrows DEF TiersAreEarned
<1>10. LiveIsLinked' /\ ConfirmedIsApproved' /\ PendingIsAList'
  BY <1>1, <1>2 DEF LiveIsLinked, ConfirmedIsApproved, Passes, PendingIsAList
<1>11. CompleteTiersAreLeft'
  <2> SUFFICES ASSUME NEW x \in Request,
                      req[x].state = "pending", req[x].tier \in RequireAll,
                      req[x].pending # {},
                      req[x].pending \subseteq {u \in User : <<req[x].tier, u>> \in lines'[x]}
               PROVE  x \in overlap' \/ req[x].pending = {Fallback[req[x].tier]}
    BY <1>2 DEF CompleteTiersAreLeft, Approved
  <2>1. CASE x # r
    BY <1>1, <1>2, <1>6, <2>1 DEF CompleteTiersAreLeft, Approved
  <2>2. CASE x = r /\ r \notin job[s].unseen
    <3>1. /\ job[s].tier = req[r].tier
          /\ ~(req[r].pending \subseteq Approved(r, job[s].tier) \cup {job[s].by})
      BY <1>1, <1>2, <2>2 DEF JobStands, WaitStands
    <3>2. {u \in User : <<req[r].tier, u>> \in lines'[r]}
            \subseteq Approved(r, job[s].tier) \cup {job[s].by}
      BY <1>6, <3>1 DEF Approved
    <3> QED BY <2>2, <3>1, <3>2
  <2>3. CASE x = r /\ r \in job[s].unseen
    BY <1>2, <2>3
  <2> QED BY <2>1, <2>2, <2>3
<1>12. LinesArePast'
  <2> SUFFICES ASSUME NEW x \in Request
               PROVE  /\ \A t \in Tier, u \in User \cup {Root} :
                           <<t, u>> \in lines'[x] => t <= req[x].tier
                      /\ req[x].state = "unused" => lines'[x] = {}
    BY <1>2 DEF LinesArePast
  <2>1. CASE x # r
    BY <1>1, <1>6, <2>1 DEF LinesArePast
  <2>2. CASE x = r
    <3>1. req[r].state # "unused" /\ job[s].tier <= req[r].tier
      BY <1>1, <1>2 DEF JobStands
    <3> QED BY <1>1, <1>6, <2>2, <3>1 DEF LinesArePast
  <2> QED BY <2>1, <2>2
<1>13. JobStands'
  <2>1. \A e \in Doc : e \notin rows => (Passes(e)' <=> Passes(e)) /\ Live(e)' = Live(e)
    BY <1>2 DEF Passes, Live
  <2>2. \A x \in Request : x \notin rows => req'[x] = req[x]
    BY <1>2
  <2>3. /\ \A x \in Request : x \notin rs => lines'[x] = lines[x]
        /\ \A x \in Request : x \notin rs => \/ req'[x] = req[x] \/ req'[x].state # "pending"
                                             \/ req[x].state = "unused"
    BY <1>2, <1>6
  <2>4. req' \in [Request -> Row]
    BY <1>1, <1>2 DEF TypeOK
  <2> HIDE DEF rows, rs
  <2> QED BY <1>4, <1>5, <1>8, <2>1, <2>2, <2>3, <2>4, JobsKeep
<1> QED BY <1>7, <1>9, <1>10, <1>11, <1>12, <1>13 DEF IInv

-----------------------------------------------------------------------------
\* What a job may write has not changed since it began.
LEMMA RowIsCurrent ==
  ASSUME IInv, NEW s \in Worker, NEW r \in job[s].reqs, r \notin job[s].missed,
         job[s].kind \in {"advance", "reject", "cancel", "sweep"}
  PROVE  /\ r \in Request /\ req[r] \in Row /\ req[r].state = "pending" /\ req[r].doc \in Doc
         /\ req[r].tier \in Tier /\ req[r].tier \in Nat
         /\ doc[req[r].doc].linked = r
         /\ RowStands(job[s], r)
<1>1. TypeOK /\ JobStands /\ LiveIsLinked /\ PendingIsAList
  BY DEF IInv
<1>2. r \in Request
  BY <1>1 DEF TypeOK, Job
<1>3. RowStands(job[s], r)
  BY <1>1 DEF JobStands
<1>4. req[r] \in Row /\ req[r].state = "pending"
  BY <1>1, <1>2, <1>3 DEF TypeOK, RowStands
<1> QED BY <1>1, <1>2, <1>3, <1>4 DEF Row, Tier, LiveIsLinked, PendingIsAList

LEMMA DecideIInv ==
  ASSUME IInv, NEW s \in Worker, NEW r \in Request, EndDecide(s, r)
  PROVE  IInv'
<1> DEFINE state == IF job[s].kind = "reject" THEN "rejected" ELSE "cancelled"
<1> DEFINE rows == {r} \cup Touched({r})
<1> DEFINE rs == {}
<1>1. /\ TypeOK /\ TiersAreEarned /\ LiveIsLinked /\ ConfirmedIsApproved
      /\ CompleteTiersAreLeft /\ PendingIsAList /\ LinesArePast /\ JobStands
  BY DEF IInv
<1>2. /\ job[s].kind \in {"reject", "cancel"} /\ job[s].reqs = {r} /\ r \notin job[s].missed
      /\ req' = [req EXCEPT ![r].state = state]
      /\ Commit(s, rows, rs) /\ UNCHANGED <<doc, lines, overlap>>
  BY DEF EndDecide, Unmissed
<1>3. req[r] \in Row /\ req[r].state = "pending" /\ doc[req[r].doc].linked = r /\ req[r].doc \in Doc
  BY <1>2, RowIsCurrent
<1>4. rows \in SUBSET (Doc \cup Request) /\ rs \in SUBSET Request
  BY DEF Touched
<1>5. job' \in [Worker -> Job] /\ \A o \in Worker : Kept(o, rows, rs)
  <2> HIDE DEF rows, rs
  <2> QED BY <1>1, <1>2, <1>4, CommitJobs
<1>6. /\ req' \in [Request -> Row]
      /\ req'[r].state \in {"rejected", "cancelled"}
      /\ req'[r].doc = req[r].doc /\ req'[r].tier = req[r].tier
      /\ \A x \in Request : x # r => req'[x] = req[x]
  <2> DEFINE row == [req[r] EXCEPT !.state = state]
  <2>1. req' = [req EXCEPT ![r] = row]
    BY <1>2
  <2>2. /\ row \in Row /\ row.state \in {"rejected", "cancelled"}
        /\ row.doc = req[r].doc /\ row.tier = req[r].tier
    BY <1>3 DEF Row, State
  <2> HIDE DEF row
  <2> QED BY <1>1, <2>1, <2>2 DEF TypeOK
<1>7. TypeOK'
  BY <1>1, <1>2, <1>5, <1>6 DEF TypeOK
<1>8. TiersAreEarned'
  <2> SUFFICES ASSUME NEW x \in Request, NEW t \in Tier, t \notin Unsound,
                      req'[x].state = "approved" \/ t < req'[x].tier
               PROVE  Earned(x, t)
    BY <1>2 DEF TiersAreEarned, Earned, Approved
  <2>1. req[x].state = "approved" \/ t < req[x].tier
    BY <1>6
  <2> QED BY <1>1, <2>1 DEF TiersAreEarned
<1>9. LiveIsLinked' /\ PendingIsAList' /\ LinesArePast'
  <2> SUFFICES ASSUME NEW x \in Request
               PROVE  /\ req'[x].state = "pending" => doc[req'[x].doc].linked = x
                      /\ req'[x].state # "unused" => req'[x].doc \in Doc
                      /\ req'[x].state = "pending" =>
                           req'[x].tier \in Unsound \/ req'[x].pending \in Lists(req'[x].tier)
                      /\ req'[x].state = "unused" => req'[x].tier = 1
                      /\ \A t \in Tier, u \in User \cup {Root} :
                           <<t, u>> \in lines[x] => t <= req'[x].tier
                      /\ req'[x].state = "unused" => lines[x] = {}
    BY <1>2 DEF LiveIsLinked, PendingIsAList, LinesArePast
  <2>1. CASE x = r
    BY <1>1, <1>3, <1>6, <2>1 DEF LinesArePast
  <2>2. CASE x # r
    <3>1. req'[x] = req[x]
      BY <1>6, <2>2
    <3> QED BY <1>1, <3>1 DEF LiveIsLinked, PendingIsAList, LinesArePast
  <2> QED BY <2>1, <2>2
<1>10. \A d \in Doc : Passes(d)' <=> Passes(d)
  <2> SUFFICES ASSUME NEW d \in Doc PROVE Passes(d)' <=> Passes(d)
    OBVIOUS
  <2>1. doc'[d] = doc[d] /\ doc[d].linked \in Request \cup {None}
    BY <1>1, <1>2 DEF TypeOK, Document
  <2>2. CASE doc[d].linked = r
    BY <1>3, <1>6, <2>1, <2>2 DEF Passes
  <2>3. CASE doc[d].linked # r
    BY <1>6, <2>1, <2>3 DEF Passes
  <2> QED BY <2>2, <2>3
<1>11. ConfirmedIsApproved'
  BY <1>1, <1>2, <1>10 DEF ConfirmedIsApproved
<1>12. CompleteTiersAreLeft'
  <2> SUFFICES ASSUME NEW x \in Request,
                      req'[x].state = "pending", req'[x].tier \in RequireAll,
                      req'[x].pending # {},
                      req'[x].pending \subseteq {u \in User : <<req'[x].tier, u>> \in lines[x]}
               PROVE  x \in overlap \/ req'[x].pending = {Fallback[req'[x].tier]}
    BY <1>2 DEF CompleteTiersAreLeft, Approved
  <2>1. req'[x] = req[x]
    BY <1>6
  <2> QED BY <1>1, <2>1 DEF CompleteTiersAreLeft, Approved
<1>13. \A d \in Doc : d \notin rows => Live(d)' = Live(d)
  <2> SUFFICES ASSUME NEW d \in Doc, d \notin rows, NEW x \in Request
               PROVE  (req'[x].state = "pending" /\ req'[x].doc = d)
                        <=> (req[x].state = "pending" /\ req[x].doc = d)
    BY DEF Live
  <2>1. CASE x = r
    BY <1>3, <1>6, <2>1 DEF Touched
  <2>2. CASE x # r
    BY <1>6, <2>2
  <2> QED BY <2>1, <2>2
<1>14. JobStands'
  <2>1. \A d \in Doc : d \notin rows => (Passes(d)' <=> Passes(d)) /\ Live(d)' = Live(d)
    BY <1>10, <1>13
  <2>2. /\ \A x \in Request : x \notin rows => req'[x] = req[x]
        /\ \A x \in Request : x \notin rs => lines'[x] = lines[x]
        /\ \A x \in Request : x \notin rs => \/ req'[x] = req[x] \/ req'[x].state # "pending"
                                             \/ req[x].state = "unused"
    BY <1>2, <1>6
  <2>3. \A x \in Request : /\ lines[x] \subseteq lines'[x]
                           /\ req[x].tier <= req'[x].tier
                           /\ req[x].state # "unused" => req'[x].state # "unused"
    <3>1. \A x \in Request : req[x].tier \in Nat
      BY <1>1 DEF TypeOK, Row, Tier
    <3> QED BY <1>2, <1>6, <3>1
  <2>4. req' \in [Request -> Row]
    BY <1>6
  <2> HIDE DEF rows, rs
  <2> QED BY <1>4, <1>5, <2>1, <2>2, <2>3, <2>4, JobsKeep
<1> QED BY <1>7, <1>8, <1>9, <1>11, <1>12, <1>14 DEF IInv

-----------------------------------------------------------------------------
\* Advanced goes to the next tier or approves.
LEMMA AdvancedFields ==
  ASSUME NEW r \in Request, req[r] \in Row, req[r].state = "pending", NEW list \in SUBSET User
  PROVE  /\ Advanced(r, list) \in Row /\ Advanced(r, list).doc = req[r].doc
         /\ req[r].tier = Tiers =>
              Advanced(r, list).state = "approved" /\ Advanced(r, list).tier = req[r].tier
         /\ req[r].tier # Tiers =>
              /\ Advanced(r, list).state = "pending" /\ Advanced(r, list).tier = req[r].tier + 1
              /\ Advanced(r, list).pending = list
<1>1. CASE req[r].tier = Tiers
  <2>1. Advanced(r, list) = [req[r] EXCEPT !.state = "approved"]
    BY <1>1 DEF Advanced
  <2> QED BY <1>1, <2>1 DEF Row, State
<1>2. CASE req[r].tier # Tiers
  <2>1. Advanced(r, list) = [req[r] EXCEPT !.tier = req[r].tier + 1, !.pending = list]
    BY <1>2 DEF Advanced, Row
  <2>2. req[r].tier + 1 \in Tier
    BY <1>2, TiersAssumption DEF Row, Tier
  <2> QED BY <1>2, <2>1, <2>2 DEF Row
<1> QED BY <1>1, <1>2

LEMMA AdvanceIInv ==
  ASSUME IInv, NEW s \in Worker, NEW r \in Request, EndAdvance(s, r)
  PROVE  IInv'
<1> DEFINE acted == {r}
<1> DEFINE final == {x \in {r} : req[x].tier = Tiers}
<1> DEFINE line == <<job[s].tier, job[s].by>>
<1>1. /\ job[s].kind = "advance" /\ job[s].reqs = {r} /\ r \notin job[s].missed
      /\ lines' = [lines EXCEPT ![r] = @ \cup {line}]
      /\ Commit(s, acted \cup Touched(final), acted) /\ UNCHANGED overlap
  BY DEF EndAdvance, Unmissed
<1>2. PICK list \in SUBSET User :
        /\ final = {} => req[r].tier + 1 \notin Unsound /\ list \in Resolved(req[r].tier + 1)
        /\ req' = [req EXCEPT ![r] = Advanced(r, list)]
  BY DEF EndAdvance
<1>3. PICK docs \in SUBSET Touched(final) : Granted(docs)
  BY DEF EndAdvance
<1>4. /\ req[r] \in Row /\ req[r].state = "pending" /\ req[r].tier \in Tier
      /\ job[s].by \in req[r].pending /\ job[s].tier = req[r].tier /\ Completes(r, job[s].by)
  BY <1>1, RowIsCurrent DEF RowStands
<1>5. TypeOK /\ PendingIsAList /\ LinesArePast /\ job[s] \in Job
  BY DEF IInv, TypeOK
<1>6. /\ Advanced(r, list) \in Row /\ Advanced(r, list).doc = req[r].doc
      /\ req[r].tier = Tiers =>
           Advanced(r, list).state = "approved" /\ Advanced(r, list).tier = req[r].tier
      /\ req[r].tier # Tiers =>
           /\ Advanced(r, list).state = "pending" /\ Advanced(r, list).tier = req[r].tier + 1
           /\ Advanced(r, list).pending = list
  BY <1>4, AdvancedFields
<1>7. req' \in [Request -> Row] /\ req'[r] = Advanced(r, list)
      /\ \A x \in Request : x # r => req'[x] = req[x]
  BY <1>2, <1>5, <1>6 DEF TypeOK
<1>8. Climbs(r) /\ (r \in final <=> req'[r].state = "approved")
  BY <1>2, <1>4, <1>6, <1>7 DEF Climbs
<1>9. /\ lines' \in [Request -> SUBSET (Tier \X (User \cup {Root}))]
      /\ lines'[r] = lines[r] \cup {line}
      /\ \A x \in Request : x # r => lines'[x] = lines[x]
  BY <1>1, <1>5 DEF TypeOK, Job
<1>10. ASSUME req[r].tier \notin Unsound, NEW t \in Tier, t = req[r].tier PROVE Earned(r, t)'
  <2>1. req[r].pending \in Lists(t)
    BY <1>4, <1>5, <1>10 DEF PendingIsAList
  <2>2. req[r].pending \subseteq User
    BY <1>4 DEF Row
  <2>3. Approved(r, t) \cup {job[s].by} \subseteq Approved(r, t)'
    BY <1>4, <1>9, <1>10, <2>2 DEF Approved
  <2>4. t \in RequireAll => req[r].pending \subseteq Approved(r, t) \cup {job[s].by}
    BY <1>4, <1>10 DEF Completes
  <2>5. req[r].pending \cap Approved(r, t)' # {}
    BY <1>4, <2>3
  <2> QED BY <2>1, <2>3, <2>4, <2>5 DEF Earned
<1>11. \A x \in acted :
         /\ lines[x] \subseteq lines'[x]
         /\ \A t \in Tier, u \in User \cup {Root} :
              <<t, u>> \in lines'[x] => <<t, u>> \in lines[x] \/ t = req[x].tier
         /\ \A t \in Tier \ Unsound :
              t = req[x].tier => \/ req'[x].state = "pending" /\ req'[x].tier = req[x].tier
                                 \/ Earned(x, t)'
  BY <1>4, <1>9, <1>10
<1>12. \A x \in acted : Climbs(x) /\ (x \in final <=> req'[x].state = "approved")
  BY <1>8
<1>13. \A x \in Request : x \notin acted => req'[x] = req[x] /\ lines'[x] = lines[x]
  BY <1>7, <1>9
<1>14. acted \in SUBSET Request /\ final \in SUBSET acted
  OBVIOUS
<1>15. docs \in SUBSET Touched(final) /\ Granted(docs)
  BY <1>3
<1>16. /\ req' \in [Request -> Row] /\ lines' \in [Request -> SUBSET (Tier \X (User \cup {Root}))]
       /\ Commit(s, acted \cup Touched(final), acted) /\ UNCHANGED overlap
  BY <1>1, <1>7, <1>9
<1> HIDE DEF acted, final
<1> QED BY <1>11, <1>12, <1>13, <1>14, <1>15, <1>16, ClimbIInv

LEMMA SweepIInv ==
  ASSUME IInv, NEW s \in Worker, EndSweep(s)
  PROVE  IInv'
<1> DEFINE rs    == job[s].reqs
<1> DEFINE acted == {r \in rs : Action(r) # "none"}
<1> DEFINE final == {r \in rs : Moves(r) /\ req[r].tier = Tiers}
<1>1. /\ job[s].kind = "sweep" /\ acted \cap job[s].missed = {}
      /\ lines' = [r \in Request |-> IF r \in acted THEN lines[r] \cup {<<req[r].tier, Root>>}
                                                     ELSE lines[r]]
      /\ Commit(s, acted \cup Touched(final), acted) /\ UNCHANGED overlap
  BY DEF EndSweep, Unmissed
<1>2. PICK list \in [rs -> SUBSET User] :
        /\ \A r \in rs : list[r] \in NextLists(r)
        /\ req' = [r \in Request |-> IF r \in rs THEN Handled(r, list[r]) ELSE req[r]]
  BY DEF EndSweep
<1>3. PICK docs \in SUBSET Touched(final) : Granted(docs)
  BY DEF EndSweep
<1>4. TypeOK /\ rs \in SUBSET Request
  BY DEF IInv, TypeOK, Job
<1>5. acted \in SUBSET Request /\ final \in SUBSET acted
  BY <1>4 DEF Moves
<1>6. \A r \in acted : /\ r \in Request /\ req[r] \in Row /\ req[r].state = "pending"
                       /\ req[r].tier \in Tier
  BY <1>1, RowIsCurrent
<1>7. \A r \in Request : r \notin acted => req'[r] = req[r] /\ lines'[r] = lines[r]
  <2> SUFFICES ASSUME NEW r \in Request, r \notin acted
               PROVE  req'[r] = req[r] /\ lines'[r] = lines[r]
    OBVIOUS
  <2>1. r \in rs => Handled(r, list[r]) = req[r]
    BY DEF Handled, Moves
  <2> QED BY <1>1, <1>2, <2>1
<1>8. ASSUME NEW r \in acted
      PROVE  /\ req'[r] \in Row /\ Climbs(r)
             /\ r \in final <=> req'[r].state = "approved"
             /\ \/ Moves(r)
                \/ req'[r].state = "pending" /\ req'[r].tier = req[r].tier
  <2>1. r \in rs /\ req'[r] = Handled(r, list[r]) /\ list[r] \in SUBSET User
        /\ list[r] \in NextLists(r)
    BY <1>2, <1>4, <1>6
  <2>2. CASE Moves(r)
    <3>1. req'[r] = Advanced(r, list[r])
      BY <2>1, <2>2 DEF Handled
    <3>2. /\ Advanced(r, list[r]) \in Row /\ Advanced(r, list[r]).doc = req[r].doc
          /\ req[r].tier = Tiers =>
               Advanced(r, list[r]).state = "approved" /\ Advanced(r, list[r]).tier = req[r].tier
          /\ req[r].tier # Tiers =>
               /\ Advanced(r, list[r]).state = "pending"
               /\ Advanced(r, list[r]).tier = req[r].tier + 1
               /\ Advanced(r, list[r]).pending = list[r]
      BY <1>6, <2>1, AdvancedFields
    <3>3. req[r].tier # Tiers =>
            req[r].tier + 1 \in Unsound \/ list[r] \in Resolved(req[r].tier + 1)
      BY <2>1 DEF NextLists
    <3> QED BY <1>6, <2>1, <2>2, <3>1, <3>2, <3>3 DEF Climbs
  <2>3. CASE ~Moves(r)
    <3>1. Action(r) = "escalate_to_user"
      BY <1>6, <2>3, OverdueAssumption DEF Action, Moves
    <3>2. req'[r] = [req[r] EXCEPT !.pending = {Fallback[req[r].tier]}]
      BY <2>1, <2>3, <3>1 DEF Handled
    <3>3. {Fallback[req[r].tier]} \in SUBSET User
      BY <1>6, UserAssumption
    <3>4. /\ req'[r] \in Row /\ req'[r].state = "pending" /\ req'[r].doc = req[r].doc
          /\ req'[r].tier = req[r].tier /\ req'[r].pending = {Fallback[req[r].tier]}
      BY <1>6, <3>2, <3>3 DEF Row
    <3> QED BY <1>6, <2>3, <3>4 DEF Climbs
  <2> QED BY <2>2, <2>3
<1>9. req' \in [Request -> Row]
  <2>1. \A r \in Request : req'[r] \in Row
    BY <1>4, <1>7, <1>8 DEF TypeOK
  <2> QED BY <1>2, <2>1
<1>10. /\ lines' \in [Request -> SUBSET (Tier \X (User \cup {Root}))]
       /\ \A r \in acted : lines'[r] = lines[r] \cup {<<req[r].tier, Root>>}
  <2>1. \A r \in acted : <<req[r].tier, Root>> \in Tier \X (User \cup {Root})
    BY <1>6
  <2>2. \A r \in acted : lines'[r] = lines[r] \cup {<<req[r].tier, Root>>}
    BY <1>1, <1>6
  <2>3. \A r \in Request : lines'[r] \in SUBSET (Tier \X (User \cup {Root}))
    BY <1>4, <1>7, <2>1, <2>2 DEF TypeOK
  <2> QED BY <1>1, <2>2, <2>3
<1>11. ASSUME NEW r \in acted, Moves(r), NEW t \in Tier, t = req[r].tier PROVE Earned(r, t)'
  <2>1. <<t, Root>> \in lines'[r]
    BY <1>10, <1>11
  <2> QED BY <1>11, <2>1 DEF Earned, Moves, Action
<1>12. \A r \in acted :
         /\ lines[r] \subseteq lines'[r]
         /\ \A t \in Tier, u \in User \cup {Root} :
              <<t, u>> \in lines'[r] => <<t, u>> \in lines[r] \/ t = req[r].tier
         /\ \A t \in Tier \ Unsound :
              t = req[r].tier => \/ req'[r].state = "pending" /\ req'[r].tier = req[r].tier
                                 \/ Earned(r, t)'
  BY <1>8, <1>10, <1>11
<1>13. \A r \in acted : Climbs(r) /\ (r \in final <=> req'[r].state = "approved")
  BY <1>8
<1>14. Commit(s, acted \cup Touched(final), acted) /\ UNCHANGED overlap
  BY <1>1
<1>15. lines' \in [Request -> SUBSET (Tier \X (User \cup {Root}))]
  BY <1>10
<1> HIDE DEF acted, final
<1> QED BY <1>3, <1>5, <1>7, <1>9, <1>12, <1>13, <1>14, <1>15, ClimbIInv

-----------------------------------------------------------------------------
LEMMA NextIInv == IInv /\ [Next]_vars => IInv'
<1> SUFFICES ASSUME IInv, [Next]_vars PROVE IInv'
  OBVIOUS
<1>1. ASSUME NEW d \in Doc, Redraft(d) PROVE IInv'
  BY <1>1, RedraftIInv
<1>2. ASSUME NEW s \in Worker, NEW d \in Doc,
             BeginConfirm(s, d) \/ EndProceed(s, d) \/ EndSubmit(s, d)
      PROVE  IInv'
  BY <1>2, BeginConfirmIInv, ProceedIInv, SubmitIInv
<1>3. ASSUME NEW s \in Worker, NEW r \in Request, NEW u \in User, BeginApprove(s, r, u)
      PROVE  IInv'
  BY <1>3, BeginApproveIInv
<1>4. ASSUME NEW s \in Worker, NEW r \in Request, NEW kind \in {"reject", "cancel"},
             BeginDecide(s, r, kind)
      PROVE  IInv'
  <2> DEFINE rs == {r}
  <2>1. /\ rs \in SUBSET Request /\ kind \in {"reject", "cancel", "sweep"}
        /\ \A x \in rs : req[x].state = "pending"
        /\ Start(s, [Idle EXCEPT !.kind = kind, !.reqs = rs])
    BY <1>4 DEF BeginDecide
  <2> HIDE DEF rs
  <2> QED BY <2>1, BeginOthersIInv
<1>5. ASSUME NEW s \in Worker, NEW r \in Request,
             EndWait(s, r) \/ EndAdvance(s, r) \/ EndDecide(s, r)
      PROVE  IInv'
  BY <1>5, WaitIInv, AdvanceIInv, DecideIInv
<1>6. ASSUME NEW s \in Worker, NEW rs \in SUBSET Request, BeginSweep(s, rs) PROVE IInv'
  <2> DEFINE kind == "sweep"
  <2>1. /\ kind \in {"reject", "cancel", "sweep"}
        /\ \A x \in rs : req[x].state = "pending"
        /\ Start(s, [Idle EXCEPT !.kind = kind, !.reqs = rs])
    BY <1>6 DEF BeginSweep
  <2> HIDE DEF kind
  <2> QED BY <2>1, BeginOthersIInv
<1>7. ASSUME NEW s \in Worker, EndSweep(s) \/ Abort(s) PROVE IInv'
  BY <1>7, SweepIInv, AbortIInv
<1>8. CASE UNCHANGED vars
  <2>1. UNCHANGED <<doc, req, lines, job, overlap>>
    BY <1>8 DEF vars
  <2>2. TypeOK' /\ PendingIsAList' /\ LinesArePast'
    BY <2>1 DEF IInv, TypeOK, PendingIsAList, LinesArePast
  <2>3. TiersAreEarned' /\ LiveIsLinked' /\ ConfirmedIsApproved' /\ CompleteTiersAreLeft'
    BY <2>1 DEF IInv, TiersAreEarned, Earned, Approved, LiveIsLinked, ConfirmedIsApproved, Passes,
                CompleteTiersAreLeft
  <2>4. JobStands'
    BY <2>1 DEF IInv, JobStands, DocStands, RowStands, WaitStands, Passes, Live, Completes, Approved
  <2> QED BY <2>2, <2>3, <2>4 DEF IInv
<1>9. ASSUME NEW s \in Worker, NEW r \in Request,
             \/ \E u \in User : BeginApprove(s, r, u)
             \/ \E kind \in {"reject", "cancel"} : BeginDecide(s, r, kind)
             \/ EndWait(s, r) \/ EndAdvance(s, r) \/ EndDecide(s, r)
      PROVE  IInv'
  BY <1>3, <1>4, <1>5, <1>9
<1>10. ASSUME NEW s \in Worker,
              \/ \E d \in Doc : BeginConfirm(s, d) \/ EndProceed(s, d) \/ EndSubmit(s, d)
              \/ \E rs \in SUBSET Request : BeginSweep(s, rs)
              \/ EndSweep(s)
              \/ Abort(s)
       PROVE  IInv'
  <2>1. CASE \E d \in Doc : BeginConfirm(s, d) \/ EndProceed(s, d) \/ EndSubmit(s, d)
    BY <1>2, <2>1
  <2>2. CASE \E rs \in SUBSET Request : BeginSweep(s, rs)
    BY <1>6, <2>2
  <2>3. CASE EndSweep(s) \/ Abort(s)
    BY <1>7, <2>3
  <2> QED BY <1>10, <2>1, <2>2, <2>3
<1> QED BY <1>1, <1>8, <1>9, <1>10 DEF Next

\* What a step may do to a request.
LEMMA NextDecisions ==
  ASSUME IInv, [Next]_vars, NEW r \in Request
  PROVE  /\ req[r].state \in {"approved", "rejected", "cancelled"} => req'[r].state = req[r].state
         /\ req'[r].tier >= req[r].tier
<1>1. TypeOK /\ TypeOK'
  BY NextIInv DEF IInv
<1>2. /\ req \in [Request -> Row] /\ req[r].tier \in Nat /\ req'[r].tier \in Nat
      /\ req[r].state = "unused" => req[r].tier = 1
  BY <1>1 DEF TypeOK, Row, Tier, IInv, PendingIsAList
<1>3. CASE req'[r] = req[r]
  BY <1>2, <1>3
<1>4. ASSUME NEW s \in Worker, NEW d \in Doc, EndSubmit(s, d), req'[r] # req[r]
      PROVE  req[r].state = "unused" /\ req'[r].tier >= req[r].tier
  <2>1. PICK x \in Request :
          \/ req' = req
          \/ /\ req[x].state = "unused"
             /\ \E list \in Resolved(1) :
                  req' = [req EXCEPT ![x] =
                           [state |-> "pending", doc |-> d, tier |-> 1, pending |-> list]]
    BY <1>4 DEF EndSubmit
  <2>2. x = r /\ req[r].state = "unused"
    BY <1>2, <1>4, <2>1
  <2>3. req'[r].tier \in Nat /\ req'[r].tier >= 1
    BY <1>1 DEF TypeOK, Row, Tier
  <2> QED BY <1>2, <2>2, <2>3
<1>5. ASSUME NEW s \in Worker, NEW x \in Request, EndAdvance(s, x), req'[r] # req[r]
      PROVE  req[r].state = "pending" /\ req'[r].tier >= req[r].tier
  <2>1. job[s].kind = "advance" /\ job[s].reqs = {x} /\ x \notin job[s].missed
    BY <1>5 DEF EndAdvance, Unmissed
  <2>2. PICK list \in SUBSET User : req' = [req EXCEPT ![x] = Advanced(x, list)]
    BY <1>5 DEF EndAdvance
  <2>3. x = r
    BY <1>2, <1>5, <2>2
  <2>4. req[r].state = "pending" /\ req[r] \in Row
    BY <2>1, <2>3, RowIsCurrent
  <2>5. req'[r] = Advanced(r, list)
    BY <1>2, <2>2, <2>3
  <2> QED BY <1>2, <2>4, <2>5, AdvancedFields
<1>6. ASSUME NEW s \in Worker, NEW x \in Request, EndDecide(s, x), req'[r] # req[r]
      PROVE  req[r].state = "pending" /\ req'[r].tier >= req[r].tier
  <2>1. /\ job[s].kind \in {"reject", "cancel"} /\ job[s].reqs = {x} /\ x \notin job[s].missed
        /\ \E state \in State : req' = [req EXCEPT ![x].state = state]
    BY <1>6 DEF EndDecide, Unmissed, State
  <2>2. x = r
    BY <1>2, <1>6, <2>1
  <2>3. req[r].state = "pending"
    BY <2>1, <2>2, RowIsCurrent
  <2>4. req'[r].tier = req[r].tier
    BY <1>2, <2>1, <2>2 DEF Row
  <2> QED BY <1>2, <2>3, <2>4
<1>7. ASSUME NEW s \in Worker, EndSweep(s), req'[r] # req[r]
      PROVE  req[r].state = "pending" /\ req'[r].tier >= req[r].tier
  <2>1. /\ job[s].kind = "sweep"
        /\ \A x \in job[s].reqs : Action(x) # "none" => x \notin job[s].missed
    BY <1>7 DEF EndSweep, Unmissed
  <2>2. PICK list \in [job[s].reqs -> SUBSET User] :
          req' = [x \in Request |-> IF x \in job[s].reqs THEN Handled(x, list[x]) ELSE req[x]]
    BY <1>7 DEF EndSweep
  <2>3. r \in job[s].reqs /\ req'[r] = Handled(r, list[r])
    BY <1>7, <2>2
  <2>4. Action(r) # "none"
    BY <1>7, <2>3 DEF Handled, Moves
  <2>5. req[r].state = "pending" /\ req[r] \in Row
    BY <2>1, <2>3, <2>4, RowIsCurrent
  <2>6. CASE Moves(r)
    BY <1>2, <2>3, <2>5, <2>6, AdvancedFields DEF Handled
  <2>7. CASE ~Moves(r)
    <3>1. req'[r] = [req[r] EXCEPT !.pending = {Fallback[req[r].tier]}] \/ req'[r] = req[r]
      BY <2>3, <2>7 DEF Handled
    <3> QED BY <1>2, <2>5, <3>1 DEF Row
  <2> QED BY <2>6, <2>7
<1>8. CASE req'[r] # req[r]
  <2>1. \/ \E s \in Worker, d \in Doc : EndSubmit(s, d)
        \/ \E s \in Worker, x \in Request : EndAdvance(s, x) \/ EndDecide(s, x)
        \/ \E s \in Worker : EndSweep(s)
    BY <1>8 DEF Next, vars, Redraft, BeginConfirm, EndProceed, BeginApprove, BeginDecide, BeginSweep,
                Start, EndWait, Abort
  <2> QED BY <1>4, <1>5, <1>6, <1>7, <1>8, <2>1
<1> QED BY <1>3, <1>8

\* The approval engine keeps its invariant: every tier a request has left is earned, a
\* document has one live request, its own, and is confirmed only when that was approved.
THEOREM ApprovalIsEarned == Spec => []IInv
<1>1. Init => IInv
  BY InitIInv
<1>2. IInv /\ [Next]_vars => IInv'
  BY NextIInv
<1> QED BY <1>1, <1>2, PTL DEF Spec

\* A require_all tier that everybody has approved is left, unless approvals overlapped or it
\* was rerouted.
THEOREM CompleteTiersMoveOn == Spec => []CompleteTiersAreLeft
<1>1. IInv => CompleteTiersAreLeft
  BY DEF IInv
<1> QED BY <1>1, ApprovalIsEarned, PTL

\* Decisions are final and tiers only rise.
THEOREM DecisionsAreFinal == Spec => DecisionsStand
<1>1. IInv /\ [Next]_vars =>
        [\A r \in Request :
           /\ req[r].state \in {"approved", "rejected", "cancelled"} => req'[r].state = req[r].state
           /\ req'[r].tier >= req[r].tier]_vars
  BY NextDecisions
<1> QED BY <1>1, ApprovalIsEarned, PTL DEF Spec, DecisionsStand
=============================================================================
