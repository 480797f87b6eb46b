---------------------------- MODULE EvidenceStore ----------------------------
(***************************************************************************)
(* The write-once evidence of one fixture: analysis captures, market       *)
(* observations, frozen predictions, their targets and opportunities       *)
(* (corner_opportunities.py) and the private shadow records derived from   *)
(* them (corner_shadow.py, corner_shadow_decisions.py).                    *)
(*                                                                         *)
(* A collector run is a queue of jobs, each of which publishes at most one *)
(* file: every file is written atomically under the ledger lock, and a run *)
(* may die between any two of them.  Runs hold the runner lock; an         *)
(* operator's capture does not.                                            *)
(***************************************************************************)
EXTENDS Naturals, Sequences, FiniteSets, SequencesExt

CONSTANTS
    Lines,       \* market lines a book may list
    TeamLines,   \* the TEAM_TOTAL ones: the frozen distribution supports them
    Listings,    \* what the books may list: the lines, and those priced to qualify
    Runs,        \* collector processes
    Kickoff,     \* the bound of time: what is retrieved is retrieved before it
    Operator,    \* an operator may capture the fixture too
    None,
    MaxReleases, \* bound: releases deployed
    MaxCrashes   \* bound

EvidenceConstants ==
    /\ TeamLines \subseteq Lines
    /\ Listings \subseteq [lines: SUBSET Lines, fair: SUBSET TeamLines]
    /\ \A q \in Listings : q.fair \subseteq q.lines
    /\ {Kickoff, MaxReleases, MaxCrashes} \subseteq Nat
    /\ Operator \in BOOLEAN

VARIABLES
    now, release,
    captures,       \* analyses/: who captured which observation, when, under which release
    observed,       \* market-observations/<fixture>/
    predictions,    \* predictions/: the captures they are extracted from
    targets,        \* prediction-targets/<prediction>/
    opportunities,  \* opportunities/<prediction>/
    stamps,         \* shadow-observation-policies/
    shadows,        \* shadow-predictions/
    decisions,      \* shadow-decisions/<prediction>/
    run,            \* per process: the jobs left, nothing if it is not running
    crashes,
    conflict        \* some publication met another record in its place

files == <<captures, observed, predictions, targets, opportunities, stamps, shadows, decisions>>
vars == <<now, release, files, run, crashes, conflict>>

Observation == [at: 0 .. Kickoff - 1, lines: SUBSET Lines, fair: SUBSET TeamLines]
Capture == [by: {"collector", "operator"}, source: Observation, created: 0 .. Kickoff - 1,
            release: 1 .. MaxReleases]
Target == [of: Capture, line: Lines, at: 0 .. Kickoff - 1]
Opportunity == [of: Capture, line: TeamLines, from: Observation]

Init ==
    /\ now = 0 /\ release = 1
    /\ captures = {} /\ observed = {} /\ predictions = {} /\ targets = {}
    /\ opportunities = {} /\ stamps = {} /\ shadows = {} /\ decisions = {}
    /\ run = [r \in Runs |-> <<>>]
    /\ crashes = 0
    /\ conflict = FALSE

-----------------------------------------------------------------------------
(* Reading the evidence                                                    *)

\* prediction_observations: the source and what was retrieved after the forecast
Observations(c) ==
    {c.source} \cup {o \in observed : o.at > c.source.at /\ o.at >= c.created}

Earliest(a, b) == a.at < b.at

\* the frozen target of a line, materialised at most once
TargetOf(c, l) == {t \in targets : t.of = c /\ t.line = l}

\* the supported lines of the source are the cohort compared with the shadow
MutantCohort(c) == {t.line : t \in {u \in targets : u.of = c}} \cap TeamLines
Cohort(c) == c.source.lines \cap TeamLines

\* validated_context: every supported source line has its target, dated at the source
ContextValid(c) ==
    /\ c \in captures /\ c \in predictions /\ c.source \in observed
    /\ \A l \in Cohort(c) :
          \E t \in TargetOf(c, l) : t.at = c.source.at

ShadowOf(c) == {s \in shadows : s.of = c}
\* read_shadow: the frozen cohort is the one the context has now
ShadowValid(s) == ContextValid(s.of) /\ s.lines = Cohort(s.of)

\* assessment_from_inputs: only lines of the source cohort are compared
Compared(c, o) == o.lines \cap UNION {s.lines : s \in ShadowOf(c)}
MutantLaterTargets(c, o) == {t.line : t \in {u \in targets : u.of = c}} \ c.source.lines
LaterOnly(c, o) == (o.lines \cap TeamLines) \ c.source.lines
Assessable(c, o) ==
    /\ o \in stamps
    /\ \E s \in ShadowOf(c) : ShadowValid(s)
    /\ o \in Observations(c)
    /\ \A l \in Compared(c, o) : \E t \in TargetOf(c, l) : t.at <= o.at
Assessment(c, o) == [of |-> c, from |-> o, compared |-> Compared(c, o), later |-> LaterOnly(c, o)]

-----------------------------------------------------------------------------
(* Jobs of a run                                                           *)

Job(kind, c, o, l) == <<kind, c, o, l>>
Of(kind, c, o) == Job(kind, c, o, None)
Bare(kind) == Of(kind, None, None)

\* assess_observation: all targets, then the qualifying opportunities
Assess(c, o) ==
    [i \in 1 .. Cardinality(o.lines) |-> Job("target", c, o, SetToSeq(o.lines)[i])]
    \o [i \in 1 .. Cardinality(o.fair) |-> Job("opportunity", c, o, SetToSeq(o.fair)[i])]

EachOf(F(_), seq) == FlattenSeq([i \in DOMAIN seq |-> F(seq[i])])
Decide(c, seq) == [i \in DOMAIN seq |-> Of("decide", c, seq[i])]
InOrder(c) == SetToSortSeq(Observations(c), Earliest)

\* store_prediction_from_capture after store_observation_from_capture
MutantPredictFirst(c) == <<Of("predict", c, c.source), Of("observe", c, c.source)>>
Companions(c) == <<Of("observe", c, c.source), Of("predict", c, c.source)>>

\* _inventory: all companions before any assessment
MutantNoRepair == <<Bare("recheck")>>
Inventory ==
    LET all == SetToSeq(captures)
        Assessing(c) == <<Of("assess", c, c.source)>>
    IN EachOf(Companions, all) \o EachOf(Assessing, all) \o <<Bare("recheck")>>

Working(r, kind) == run[r] # <<>> /\ Head(run[r])[1] = kind
\* what replaces the job at the head of the queue
Continue(r, jobs) == run' = [run EXCEPT ![r] = jobs \o Tail(@)]
Done(r) == Continue(r, <<>>)

\* _publish: the record is written unless its path holds one, which must be the same
Publish(files_, record, others) == files_ \cup (IF others = {} THEN {record} ELSE {})

-----------------------------------------------------------------------------
(* Steps                                                                   *)

Tick ==
    /\ now < Kickoff
    /\ now' = now + 1
    /\ UNCHANGED <<release, files, run, crashes, conflict>>

Retrieved(q) == [at |-> now, lines |-> q.lines, fair |-> q.fair]

MutantNoRunnerLock == \E r \in Runs : run[r] = <<>>
LockFree == \A r \in Runs : run[r] = <<>>

\* deployment quiesces the collector
Deploy ==
    /\ LockFree /\ release < MaxReleases
    /\ release' = release + 1
    /\ UNCHANGED <<now, files, run, crashes, conflict>>

\* the operator's capture command: another idempotency key, the ledger lock only
OperatorCapture ==
    /\ Operator /\ now < Kickoff
    /\ \A c \in captures : c.by # "operator"
    /\ \E q \in Listings :
          /\ q.lines \cap TeamLines # {}
          /\ captures' = captures \cup {[by |-> "operator", created |-> now, release |-> release,
                                         source |-> Retrieved(q)]}
    /\ UNCHANGED <<now, release, observed, predictions, targets, opportunities, stamps, shadows,
                   decisions, run, crashes, conflict>>

Start(r) ==
    /\ LockFree
    /\ run' = [run EXCEPT ![r] = Inventory]
    /\ UNCHANGED <<now, release, files, crashes, conflict>>

\* store_observation_from_capture: content-addressed, a replay is the same record
Observe(r) ==
    /\ Working(r, "observe")
    /\ observed' = observed \cup {Head(run[r])[3]}
    /\ Done(r)
    /\ UNCHANGED <<now, release, captures, predictions, targets, opportunities, stamps, shadows,
                   decisions, crashes, conflict>>

Predict(r) ==
    /\ Working(r, "predict")
    /\ predictions' = predictions \cup {Head(run[r])[2]}
    /\ Done(r)
    /\ UNCHANGED <<now, release, captures, observed, targets, opportunities, stamps, shadows,
                   decisions, crashes, conflict>>

\* _inventory: every observation in order of retrieval, then the private comparison
AssessCapture(r) ==
    /\ Working(r, "assess")
    /\ LET c == Head(run[r])[2]
           AssessOne(o) == Assess(c, o)
       IN Continue(r, EachOf(AssessOne, InOrder(c)) \o <<Job("shadow", c, None, InOrder(c))>>)
    /\ UNCHANGED <<now, release, files, crashes, conflict>>

\* materialize_target looks for the target under the lock, leaves it and publishes
LookForTarget(r) ==
    /\ Working(r, "target")
    /\ LET j == Head(run[r])
       IN Continue(r, IF TargetOf(j[2], j[4]) # {} THEN <<>>
                      ELSE <<Job("publish target", j[2], j[3], j[4])>>)
    /\ UNCHANGED <<now, release, files, crashes, conflict>>

MutantDatedNow(o) == now
MaterializedAt(o) == o.at

PublishTarget(r) ==
    /\ Working(r, "publish target")
    /\ LET j == Head(run[r])
           target == [of |-> j[2], line |-> j[4], at |-> MaterializedAt(j[3])]
           existing == TargetOf(j[2], j[4])
       IN /\ targets' = Publish(targets, target, existing)
          /\ IF existing \subseteq {target}
             THEN Done(r) /\ UNCHANGED conflict
             ELSE run' = [run EXCEPT ![r] = <<>>] /\ conflict' = TRUE
    /\ UNCHANGED <<now, release, captures, observed, predictions, opportunities, stamps, shadows,
                   decisions, crashes>>

PublishOpportunity(r) ==
    /\ Working(r, "opportunity")
    /\ LET j == Head(run[r])
       IN opportunities' = opportunities \cup {[of |-> j[2], line |-> j[4], from |-> j[3]]}
    /\ Done(r)
    /\ UNCHANGED <<now, release, captures, observed, predictions, targets, stamps, shadows,
                   decisions, crashes, conflict>>

\* store_shadow_from_capture: its own release, an open window, a complete cohort
MayShadow(c) == ContextValid(c) /\ release = c.release /\ now < Kickoff
Shadow(r) ==
    /\ Working(r, "shadow")
    /\ LET c == Head(run[r])[2]
           shadow == [of |-> c, lines |-> Cohort(c)]
           stored == ShadowOf(c)
       IN IF stored # {}
          THEN /\ Continue(r, IF \A s \in stored : ShadowValid(s)
                              THEN Decide(c, Head(run[r])[4]) ELSE <<>>)
               /\ UNCHANGED shadows
          ELSE IF MayShadow(c)
               THEN /\ shadows' = shadows \cup {shadow}
                    /\ Continue(r, Decide(c, Head(run[r])[4]))
               ELSE Done(r) /\ UNCHANGED shadows
    /\ UNCHANGED <<now, release, captures, observed, predictions, targets, opportunities, stamps,
                   decisions, crashes, conflict>>

\* store_assessment: a failure is a reason in the receipt, never the end of the run
StoreDecision(r) ==
    /\ Working(r, "decide")
    /\ LET c == Head(run[r])[2]
           o == Head(run[r])[3]
           same == {d \in decisions : d.of = c /\ d.from = o}
       IN decisions' = IF Assessable(c, o) THEN Publish(decisions, Assessment(c, o), same)
                       ELSE decisions
    /\ Done(r)
    /\ UNCHANGED <<now, release, captures, observed, predictions, targets, opportunities, stamps,
                   shadows, crashes, conflict>>

\* "Recheck evidence immediately before quotes": the first capture the directory lists
Recheck(r) ==
    /\ Working(r, "recheck")
    /\ IF captures = {} THEN Continue(r, <<Of("acquire", None, None)>>)
       ELSE \E c \in captures :
              Continue(r, Companions(c) \o Assess(c, c.source)
                          \o <<Job("shadow", c, None, <<c.source>>), Of("acquire", c, None)>>)
    /\ UNCHANGED <<now, release, files, crashes, conflict>>

\* no slot is due, or a second look was taken
Skip(r) ==
    /\ Working(r, "acquire")
    /\ Done(r)
    /\ UNCHANGED <<now, release, files, crashes, conflict>>

\* get_corner_markets and store_market_observation
Acquire(r) ==
    /\ Working(r, "acquire")
    /\ now < Kickoff
    /\ Cardinality(observed) < 2
    /\ LET c == Head(run[r])[2]
       IN /\ c # None => Cardinality(Observations(c)) < 2
          /\ \E q \in Listings : /\ observed' = observed \cup {Retrieved(q)}
                                 /\ Continue(r, <<Of("stamp", c, Retrieved(q))>>)
    /\ UNCHANGED <<now, release, captures, predictions, targets, opportunities, stamps, shadows,
                   decisions, crashes, conflict>>

\* _shadow_stamp, then the second look of a captured fixture or its first capture
Stamp(r) ==
    /\ Working(r, "stamp")
    /\ LET c == Head(run[r])[2]
           o == Head(run[r])[3]
       IN /\ stamps' = IF now < Kickoff THEN stamps \cup {o} ELSE stamps
          /\ Continue(r, IF o.lines \cap TeamLines = {} THEN <<>>
                         ELSE IF c = None THEN <<Of("capture", None, o)>>
                         ELSE IF o \in Observations(c) THEN Assess(c, o) \o <<Of("decide", c, o)>>
                         ELSE <<Of("reject", c, o)>>)
    /\ UNCHANGED <<now, release, captures, observed, predictions, targets, opportunities, shadows,
                   decisions, crashes, conflict>>

\* PREDICTION_OBSERVATION_MISMATCH: not retrieved after the source and the forecast
Reject(r) ==
    /\ Working(r, "reject")
    /\ run' = [run EXCEPT ![r] = <<>>]
    /\ UNCHANGED <<now, release, files, crashes, conflict>>

\* client.capture under the fixture's own key, refused once its window has closed
MutantWindowUnchecked == FALSE
WindowClosed == now = Kickoff
StoreCapture(r) ==
    /\ Working(r, "capture")
    /\ LET o == Head(run[r])[3]
           c == [by |-> "collector", source |-> o, created |-> now, release |-> release]
           same == {d \in captures : d.by = "collector"}
       IN IF WindowClosed THEN Done(r) /\ UNCHANGED <<captures, conflict>>
          ELSE IF same # {}
               THEN /\ run' = [run EXCEPT ![r] = <<>>] /\ conflict' = TRUE
                    /\ UNCHANGED captures
               ELSE /\ captures' = captures \cup {c}
                    /\ Continue(r, Companions(c) \o Assess(c, o)
                                   \o <<Job("shadow", c, None, <<o>>)>>)
                    /\ UNCHANGED conflict
    /\ UNCHANGED <<now, release, observed, predictions, targets, opportunities, stamps, shadows,
                   decisions, crashes>>

Crash(r) ==
    /\ run[r] # <<>> /\ crashes < MaxCrashes
    /\ run' = [run EXCEPT ![r] = <<>>]
    /\ crashes' = crashes + 1
    /\ UNCHANGED <<now, release, files, conflict>>

Step(r) ==
    \/ Observe(r) \/ Predict(r) \/ AssessCapture(r) \/ LookForTarget(r) \/ PublishTarget(r)
    \/ PublishOpportunity(r) \/ Shadow(r) \/ StoreDecision(r) \/ Recheck(r) \/ Skip(r)
    \/ Acquire(r) \/ Stamp(r) \/ Reject(r) \/ StoreCapture(r)

Next ==
    \/ Tick \/ Deploy \/ OperatorCapture
    \/ \E r \in Runs : Start(r) \/ Step(r) \/ Crash(r)

\* the timer starts a run every hour and systemd lets it finish
Fairness == WF_vars(\E r \in Runs : Start(r)) /\ \A r \in Runs : WF_vars(Step(r))
Spec == Init /\ [][Next]_vars /\ Fairness

-----------------------------------------------------------------------------
(* Properties                                                              *)

TypeOK ==
    /\ now \in 0 .. Kickoff /\ release \in 1 .. MaxReleases
    /\ captures \subseteq Capture /\ predictions \subseteq captures
    /\ observed \subseteq Observation /\ stamps \subseteq observed
    /\ targets \subseteq Target /\ opportunities \subseteq Opportunity
    /\ conflict \in BOOLEAN

\* Readers validate every reference (_locked_inventory, research snapshots): whatever run died
\* where, a prediction's source observation, and an opportunity's target, observation and
\* prediction are on file, and the observation is one the prediction may be assessed with.
ReferencesResolve ==
    /\ \A c \in predictions : c.source \in observed
    /\ \A t \in targets : t.of \in predictions
    /\ \A p \in opportunities :
          /\ p.of \in predictions
          /\ p.from \in observed \cap Observations(p.of)
          /\ TargetOf(p.of, p.line) # {}

\* A prediction has one target per line, whoever materialises it: runs exclude each other, so the
\* lock that materialize_target releases between looking and publishing costs no run
\* an IDEMPOTENCY_CONFLICT.
PublicationsAgree ==
    /\ ~conflict
    /\ \A t, u \in targets : t.of = u.of /\ t.line = u.line => t = u

\* The cohort a shadow froze is the cohort its context still has: every source line has a target
\* dated at the source, and no later line enters it (read_shadow never rejects a stored shadow).
CohortsStayFrozen == \A s \in shadows : ShadowValid(s)

\* compare_decisions recomputes every stored decision from the evidence of the day and rejects the
\* whole report when one differs: what was stored earlier is what would be stored now.
DecisionsReplay == \A d \in decisions : Assessable(d.of, d.from) /\ d = Assessment(d.of, d.from)

\* Whatever run dies where, each capture is eventually extracted and assessed against everything
\* that was observed after it (_inventory repairs what an earlier run left out).
Assessed(c) ==
    /\ c \in predictions
    /\ \A o \in Observations(c) :
          /\ \A l \in o.lines : TargetOf(c, l) # {}
          /\ \A l \in o.fair : [of |-> c, line |-> l, from |-> o] \in opportunities
EvidenceIsCompleted == \A by \in {"collector", "operator"} :
    (\E c \in captures : c.by = by) ~> (\E c \in captures : c.by = by /\ Assessed(c))

\* "Materialization time is evidence of when a later line first appeared" (corner_opportunities.py):
\* no observation the prediction is assessed with lists the line before its target is dated.
DatedAtFirstAppearance ==
    \A t \in targets : \A o \in observed \cap Observations(t.of) : t.line \in o.lines => t.at <= o.at
=============================================================================
