------------------------------ MODULE Approval ------------------------------
(***************************************************************************)
(* The approval engine of custom_approval_engine: confirming a document    *)
(* that a matrix matches creates a request, the request climbs the tiers   *)
(* of the matrix, and the last tier confirms the document.                 *)
(*                                                                         *)
(* Every operation is one database transaction without a lock.  A job      *)
(* takes its snapshot and decides when it begins and writes when it        *)
(* commits; writing a row that was changed since fails.  History lines are *)
(* only inserted: nobody conflicts on them.                                *)
(***************************************************************************)
EXTENDS Naturals, FiniteSets

CONSTANTS
  Doc,        \* documents that the matrix matches
  Request,    \* approval.request rows
  User,       \* users who may approve
  Root,       \* base.user_root, who acts for the escalation cron
  None,       \* no request
  Worker,     \* concurrent database transactions
  Tiers,      \* number of tiers of the matrix
  RequireAll, \* tiers with require_all
  Approvers,  \* users that a tier resolves to
  Delegate,   \* whom a user's absence or delegation points at
  Overdue,    \* on_overdue of each tier
  Fallback,   \* escalation_user_id of each tier
  Unsound     \* tiers whose approver domain is a list but cannot be searched

Tier == 1..Tiers

ASSUME TiersAssumption == Tiers \in Nat \ {0} /\ RequireAll \subseteq Tier /\ Unsound \subseteq Tier
ASSUME UserAssumption  == /\ Root \notin User /\ None \notin Request /\ Doc \cap Request = {}
                          /\ Approvers \in [Tier -> SUBSET User]
                          /\ Delegate \in [User -> User]
                          /\ Fallback \in [Tier -> User]
ASSUME OverdueAssumption ==
  Overdue \in [Tier -> {"auto_approve", "escalate_to_next", "escalate_to_user", "none"}]

VARIABLES
  doc,      \* each document: its request, and whether it is confirmed
  req,      \* each request: state, document, current tier and pending approvers
  lines,    \* history lines of each request: who approved or escalated which tier
  job,      \* the database transactions under way
  overlap   \* requests with an approval that did not see another one

vars == <<doc, req, lines, job, overlap>>

-----------------------------------------------------------------------------
Document == [linked: Request \cup {None}, confirmed: BOOLEAN]
State    == {"unused", "pending", "approved", "rejected", "cancelled"}
Row      == [state: State, doc: Doc \cup {None}, tier: Tier, pending: SUBSET User]
NoRow    == [state |-> "unused", doc |-> None, tier |-> 1, pending |-> {}]

Job  == [kind: {"idle", "submit", "proceed", "wait", "advance", "reject", "cancel", "sweep"},
         docs: SUBSET Doc, reqs: SUBSET Request, by: User \cup {Root}, tier: Tier,
         missed: SUBSET (Doc \cup Request), unseen: SUBSET Request]
Idle == [kind |-> "idle", docs |-> {}, reqs |-> {}, by |-> Root, tier |-> 1,
         missed |-> {}, unseen |-> {}]

TypeOK ==
  /\ doc     \in [Doc -> Document]
  /\ req     \in [Request -> Row]
  /\ lines   \in [Request -> SUBSET (Tier \X (User \cup {Root}))]
  /\ job     \in [Worker -> Job]
  /\ overlap \in SUBSET Request

Init ==
  /\ doc     = [d \in Doc |-> [linked |-> None, confirmed |-> FALSE]]
  /\ req     = [r \in Request |-> NoRow]
  /\ lines   = [r \in Request |-> {}]
  /\ job     = [s \in Worker |-> Idle]
  /\ overlap = {}

-----------------------------------------------------------------------------
\* The lists _refresh_pending_approvers may come to: each approver, or his stand-in.
Resolved(t) ==
  {{IF u \in away THEN Delegate[u] ELSE u : u \in Approvers[t]} : away \in SUBSET User}

Approved(r, t) == {u \in User : <<t, u>> \in lines[r]}

Live(d) == {r \in Request : req[r].state = "pending" /\ req[r].doc = d}

\* A state change rewrites x_custom_approval_state, stored on the document.
Touched(rs) == {d \in Doc : doc[d].linked \in rs}

\* What commits is missed by the other jobs, and so are new lines of rs.
Missing(jobs, rows, rs) ==
  [o \in Worker |-> IF jobs[o] = Idle
                      THEN Idle
                      ELSE [jobs[o] EXCEPT !.missed = @ \cup rows, !.unseen = @ \cup rs]]

\* The job ends with the commit.
Commit(s, rows, rs) == job' = Missing([job EXCEPT ![s] = Idle], rows, rs)

Start(s, new) ==
  /\ job[s] = Idle
  /\ job' = [job EXCEPT ![s] = new]
  /\ UNCHANGED <<doc, req, lines, overlap>>

Unmissed(s, rows) == rows \cap job[s].missed = {}

-----------------------------------------------------------------------------
\* The request of the document has been approved.
Passes(d) == doc[d].linked # None /\ req[doc[d].linked].state = "approved"

\* _approval_request_or_proceed of a document that waits returns FALSE; one that passes
\* is confirmed; any other gets a request, or the live one that the search finds.
BeginConfirm(s, d) ==
  /\ ~doc[d].confirmed
  /\ \/ /\ Passes(d)
        /\ Start(s, [Idle EXCEPT !.kind = "proceed", !.docs = {d}])
     \/ /\ ~Passes(d)
        /\ doc[d].linked # None => req[doc[d].linked].state # "pending"
        /\ Start(s, [Idle EXCEPT !.kind = "submit", !.docs = {d}, !.reqs = Live(d)])

EndProceed(s, d) ==
  /\ job[s].kind = "proceed" /\ job[s].docs = {d}
  /\ Unmissed(s, {d})
  /\ doc' = [doc EXCEPT ![d].confirmed = TRUE]
  /\ Commit(s, {d}, {})
  /\ UNCHANGED <<req, lines, overlap>>

\* _create_for_record and action_submit: a new request at the first tier.
EndSubmit(s, d) ==
  /\ job[s].kind = "submit" /\ job[s].docs = {d}
  /\ Unmissed(s, {d})
  /\ \E r \in Request :
       /\ \/ r \in job[s].reqs /\ req' = req
          \/ /\ job[s].reqs = {} /\ req[r].state = "unused"
             /\ 1 \notin Unsound
             /\ \E list \in Resolved(1) :
                  req' = [req EXCEPT ![r] =
                           [state |-> "pending", doc |-> d, tier |-> 1, pending |-> list]]
       /\ doc' = [doc EXCEPT ![d].linked = r]
       /\ Commit(s, {d, r}, {})
  /\ UNCHANGED <<lines, overlap>>

\* Core sets a confirmed document back to draft; its approval stays.
Redraft(d) ==
  /\ doc[d].confirmed
  /\ doc' = [doc EXCEPT ![d].confirmed = FALSE]
  /\ job' = Missing(job, {d}, {})
  /\ UNCHANGED <<req, lines, overlap>>

-----------------------------------------------------------------------------
\* Mutant: anybody's approval completes a tier.
Completes_Any(r, u) == TRUE

\* Mutant: counts the approvals before it writes its own.
Completes_Early(r, u) ==
  req[r].tier \in RequireAll => req[r].pending \subseteq Approved(r, req[r].tier)

\* With require_all, everybody pending has approved, by the lines the snapshot holds.
Completes(r, u) ==
  req[r].tier \in RequireAll => req[r].pending \subseteq Approved(r, req[r].tier) \cup {u}

BeginApprove(s, r, u) ==
  /\ req[r].state = "pending" /\ u \in req[r].pending
  /\ Start(s, [Idle EXCEPT !.kind = IF Completes(r, u) THEN "advance" ELSE "wait",
                           !.reqs = {r}, !.by = u, !.tier = req[r].tier])

\* An approval that waits for others writes a line and nothing else.
EndWait(s, r) ==
  /\ job[s].kind = "wait" /\ job[s].reqs = {r}
  /\ lines'   = [lines EXCEPT ![r] = @ \cup {<<job[s].tier, job[s].by>>}]
  /\ overlap' = IF r \in job[s].unseen THEN overlap \cup {r} ELSE overlap
  /\ Commit(s, {}, {r})
  /\ UNCHANGED <<doc, req>>

\* _advance_to_next_tier, given the approvers the next tier resolves to.
Advanced(r, list) ==
  IF req[r].tier = Tiers
    THEN [req[r] EXCEPT !.state = "approved"]
    ELSE [req[r] EXCEPT !.tier = @ + 1, !.pending = list]

\* _approval_on_granted confirms documents of approved requests; a failure is swallowed.
Granted(docs) ==
  doc' = [d \in Doc |-> IF d \in docs THEN [doc[d] EXCEPT !.confirmed = TRUE] ELSE doc[d]]

EndAdvance(s, r) ==
  LET final == {x \in {r} : req[x].tier = Tiers}
  IN  /\ job[s].kind = "advance" /\ job[s].reqs = {r}
      /\ Unmissed(s, {r} \cup Touched(final))
      /\ \E list \in SUBSET User :
           /\ final = {} => req[r].tier + 1 \notin Unsound /\ list \in Resolved(req[r].tier + 1)
           /\ req' = [req EXCEPT ![r] = Advanced(r, list)]
      /\ \E docs \in SUBSET Touched(final) : Granted(docs)
      /\ lines' = [lines EXCEPT ![r] = @ \cup {<<job[s].tier, job[s].by>>}]
      /\ Commit(s, {r} \cup Touched(final), {r})
      /\ UNCHANGED overlap

\* Mutant: a decided request can be cancelled.
BeginDecide_Any(s, r, kind) ==
  /\ req[r].state # "unused"
  /\ kind = "reject" => req[r].pending # {}
  /\ Start(s, [Idle EXCEPT !.kind = kind, !.reqs = {r}])

\* action_reject by some pending approver, action_cancel by anyone.
BeginDecide(s, r, kind) ==
  /\ req[r].state = "pending"
  /\ kind = "reject" => req[r].pending # {}
  /\ Start(s, [Idle EXCEPT !.kind = kind, !.reqs = {r}])

EndDecide(s, r) ==
  /\ job[s].kind \in {"reject", "cancel"} /\ job[s].reqs = {r}
  /\ Unmissed(s, {r} \cup Touched({r}))
  /\ req' = [req EXCEPT ![r].state = IF job[s].kind = "reject" THEN "rejected" ELSE "cancelled"]
  /\ Commit(s, {r} \cup Touched({r}), {})
  /\ UNCHANGED <<doc, lines, overlap>>

-----------------------------------------------------------------------------
\* The escalation cron takes all requests that are overdue, in one database transaction.
BeginSweep(s, rs) ==
  /\ rs # {}
  /\ \A r \in rs : req[r].state = "pending"
  /\ Start(s, [Idle EXCEPT !.kind = "sweep", !.reqs = rs])

Action(r) == Overdue[req[r].tier]

Moves(r) == Action(r) \in {"auto_approve", "escalate_to_next"}

\* The lists a request may have at the next tier.  It is at that tier before its approvers
\* are resolved: the cron swallows the error of an unsound domain, and the list stays.
NextLists(r) ==
  IF req[r].tier = Tiers THEN {{}}
  ELSE IF req[r].tier + 1 \in Unsound THEN {req[r].pending}
  ELSE Resolved(req[r].tier + 1)

\* _handle_overdue.
Handled(r, list) ==
  IF Moves(r) THEN Advanced(r, list)
  ELSE IF Action(r) = "escalate_to_user" THEN [req[r] EXCEPT !.pending = {Fallback[req[r].tier]}]
  ELSE req[r]

EndSweep(s) ==
  LET rs     == job[s].reqs
      acted  == {r \in rs : Action(r) # "none"}
      final  == {r \in rs : Moves(r) /\ req[r].tier = Tiers}
  IN  /\ job[s].kind = "sweep"
      /\ Unmissed(s, acted \cup Touched(final))
      /\ \E list \in [rs -> SUBSET User] :
           /\ \A r \in rs : list[r] \in NextLists(r)
           /\ req' = [r \in Request |-> IF r \in rs THEN Handled(r, list[r]) ELSE req[r]]
      /\ \E docs \in SUBSET Touched(final) : Granted(docs)
      /\ lines' = [r \in Request |-> IF r \in acted THEN lines[r] \cup {<<req[r].tier, Root>>}
                                                     ELSE lines[r]]
      /\ Commit(s, acted \cup Touched(final), acted)
      /\ UNCHANGED overlap

\* An error, a conflict or a crash.
Abort(s) ==
  /\ job[s] # Idle
  /\ job' = [job EXCEPT ![s] = Idle]
  /\ UNCHANGED <<doc, req, lines, overlap>>

Next ==
  \/ \E d \in Doc : Redraft(d)
  \/ \E s \in Worker :
       \/ \E d \in Doc : BeginConfirm(s, d) \/ EndProceed(s, d) \/ EndSubmit(s, d)
       \/ \E r \in Request :
            \/ \E u \in User : BeginApprove(s, r, u)
            \/ \E kind \in {"reject", "cancel"} : BeginDecide(s, r, kind)
            \/ EndWait(s, r) \/ EndAdvance(s, r) \/ EndDecide(s, r)
       \/ \E rs \in SUBSET Request : BeginSweep(s, rs)
       \/ EndSweep(s)
       \/ Abort(s)

Spec == Init /\ [][Next]_vars

-----------------------------------------------------------------------------
\* A request has left a tier only because the cron moved it on, or because one approver, or
\* with require_all every approver, of a list that the tier could have has approved.
Lists(t) == Resolved(t) \cup {{Fallback[t]}}

Earned(r, t) ==
  \/ Overdue[t] \in {"auto_approve", "escalate_to_next"} /\ <<t, Root>> \in lines[r]
  \/ \E list \in Lists(t) :
       /\ list \cap Approved(r, t) # {}
       /\ t \in RequireAll => list \subseteq Approved(r, t)

TiersAreEarned ==
  \A r \in Request : \A t \in Tier \ Unsound :
    req[r].state = "approved" \/ t < req[r].tier => Earned(r, t)

\* "Idempotent - returns existing draft/pending": a document has one live request at most,
\* the one it links to, although two confirmations may find none and create one each.
LiveIsLinked ==
  \A r \in Request : req[r].state = "pending" => doc[req[r].doc].linked = r

\* The gate: a document is confirmed only while the request it links to is approved.
ConfirmedIsApproved == \A d \in Doc : doc[d].confirmed => Passes(d)

\* "Second approver completes": a require_all tier that all its approvers have approved is
\* left.  It is not when two approvals overlap and neither sees the other, or when the
\* fallback it is rerouted to has approved before.
CompleteTiersAreLeft ==
  \A r \in Request :
    LET t == req[r].tier IN
    /\ req[r].state = "pending" /\ t \in RequireAll
    /\ req[r].pending # {} /\ req[r].pending \subseteq Approved(r, t)
    => r \in overlap \/ req[r].pending = {Fallback[t]}

\* A decision is never revised, and a request never goes back a tier, whatever approvals,
\* rejections, cancellations and sweeps race.
DecisionsStand ==
  [][\A r \in Request :
       /\ req[r].state \in {"approved", "rejected", "cancelled"} => req'[r].state = req[r].state
       /\ req'[r].tier >= req[r].tier]_vars

-----------------------------------------------------------------------------
(***************************************************************************)
(* The inductive invariant: what a job has decided on stands as long as it *)
(* has not missed the row it writes.                                       *)
(***************************************************************************)
PendingIsAList ==
  \A r \in Request :
    /\ req[r].state # "unused" => req[r].doc \in Doc
    /\ req[r].state = "pending" => req[r].tier \in Unsound \/ req[r].pending \in Lists(req[r].tier)
    /\ req[r].state = "unused" => req[r].tier = 1

LinesArePast ==
  \A r \in Request :
    /\ \A t \in Tier, u \in User \cup {Root} : <<t, u>> \in lines[r] => t <= req[r].tier
    /\ req[r].state = "unused" => lines[r] = {}

DocStands(j, d) ==
  /\ j.kind = "proceed" => Passes(d)
  /\ j.kind = "submit"  => ~Passes(d) /\ Live(d) = j.reqs

RowStands(j, r) ==
  /\ j.kind \in {"advance", "reject", "cancel", "sweep"} => req[r].state = "pending"
  /\ j.kind = "advance" => /\ j.by \in req[r].pending /\ j.tier = req[r].tier
                           /\ Completes(r, j.by)

WaitStands(j, r) ==
  j.kind = "wait" /\ req[r].state = "pending" =>
    /\ j.tier = req[r].tier
    /\ ~(req[r].pending \subseteq Approved(r, j.tier) \cup {j.by})

JobStands ==
  \A s \in Worker :
    /\ \A d \in job[s].docs \ job[s].missed : DocStands(job[s], d)
    /\ \A r \in job[s].reqs \ job[s].missed : RowStands(job[s], r)
    /\ \A r \in job[s].reqs \ job[s].unseen : WaitStands(job[s], r)
    /\ \A r \in job[s].reqs : job[s].kind \in {"wait", "advance"} =>
         req[r].state # "unused" /\ job[s].tier <= req[r].tier

IInv ==
  /\ TypeOK
  /\ TiersAreEarned
  /\ LiveIsLinked
  /\ ConfirmedIsApproved
  /\ CompleteTiersAreLeft
  /\ PendingIsAList
  /\ LinesArePast
  /\ JobStands
=============================================================================
