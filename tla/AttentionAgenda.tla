----------------------------- MODULE AttentionAgenda -----------------------------
(* From a run's signals to management's agenda: reasoning/engine.py turns  *)
(* the signals context does not explain away into findings that recur      *)
(* across runs, management/attention.py groups them into a short agenda of *)
(* themes, economic/engine.py resolves the findings into stories, impacts  *)
(* and opportunity candidates, and management/opportunity_register.py puts *)
(* a candidate beside a theme.  intake/bridge.py:126 calls the four in     *)
(* this order, once per run; context arrives at any time, and runs of one  *)
(* client interleave.                                                      *)
(*                                                                         *)
(* Abstracted: texts, amounts (whether a movement is a fall is kept), and  *)
(* the facts and interpretations, which only restate a signal.             *)
EXTENDS Integers, Sequences, FiniteSets, SequencesExt

CONSTANTS
    AgendaRuns,     \* engine runs of one client
    SignalsOf,      \* run -> the sequence of ACTIVE signals its diagnostics left
    CapacityRefused,\* the runs whose capacity schedule was refused as implausible
    ContextEvents,  \* the context management may record: [type, entity, from, to]
    MaxItems,       \* max_primary_items and max_items (7)
    MinItems        \* min_items (3)

VARIABLES
    contexts,       \* the context_event rows, all CURRENT
    step,           \* run -> how far it has come
    suppressed,     \* <<run, i>>: suppression_result rows
    profiles,       \* persistence_profile rows
    bundles,        \* finding_candidate rows, each with its evidence bundle
    clusters,       \* finding_cluster rows with their members
    findings,       \* finding identity -> first and last run
    versions,       \* finding_version rows
    queue,          \* run -> its fd_review_queue, in order
    agenda,         \* run -> its management_attention_item rows, in rank order
    stories,        \* economic_story identity -> first and last run
    economics,      \* economic_impact, economic_exposure and opportunity_candidate rows
    register        \* run -> its profit_cash_opportunity_register, in order

reasoningVars == <<suppressed, profiles, bundles, clusters, findings, versions>>
economicVars == <<stories, economics>>
agendaVars == <<contexts, step, reasoningVars, queue, agenda, economicVars, register>>

Steps == <<"DRAWN", "REASONED", "AGREED", "RESOLVED", "REGISTERED">>
Rank == [INFORMATIONAL |-> 0, LOW |-> 1, MEDIUM |-> 2, HIGH |-> 3]
Concentration == {"TOP_CUSTOMER_CONCENTRATION", "TOP5_CONCENTRATION"}
CustomerFall == {"CUSTOMER_DECLINE", "CUSTOMER_BRIDGE_LEG"}
Receivables == {"AR_OVERDUE_OUTSTANDING", "BS_ACCOUNTS_RECEIVABLE"}
HardContext == {"PLANNED_SHUTDOWN", "KNOWN_SEASONAL_EVENT", "ACCOUNTING_RESTATEMENT", "KNOWN_ONE_OFF"}
Dispute == {"MANAGEMENT_DISPUTE", "CONTRADICTORY_EVIDENCE", "DATA_CONFLICT"}

SignalRow == [family : STRING, test : STRING, type : STRING, entity : STRING, mat : DOMAIN Rank,
              eligibility : STRING, fall : BOOLEAN, from : Nat, to : Nat]
(* The one caller leaves min_items and max_items at 3 and 7.               *)
ASSUME AgendaAssumption ==
    /\ SignalsOf \in [AgendaRuns -> Seq(SignalRow)]
    /\ MinItems \in Nat /\ MaxItems \in Nat /\ MinItems <= MaxItems

SignalAt(r, i) == SignalsOf[r][i]
Advance(r, from, to) == step[r] = from /\ step' = [step EXCEPT ![r] = to]
(* A row reached again keeps its first run and takes this as its last.     *)
Reached(rows, keys, r) ==
    [k \in DOMAIN rows \cup keys |-> IF k \notin keys THEN rows[k]
                                     ELSE [first |-> IF k \in DOMAIN rows THEN rows[k].first ELSE r, last |-> r]]

--------------------------------------------------------------------------------
(* Context.  A date of 0 is none.                                          *)

Overlaps(sig, c) ==
    /\ c.entity = "" \/ c.entity = sig.entity
    /\ \/ sig.from = 0 /\ sig.to = 0
       \/ /\ ~(c.from # 0 /\ sig.to # 0 /\ c.from > sig.to)
          /\ ~(c.to # 0 /\ sig.from # 0 /\ c.to < sig.from)
Context(sig) == {c \in contexts : Overlaps(sig, c)}

(* A plausible slip: suppression only where every context explains.        *)
EffectOfAll(found) ==
    IF found # {} /\ \A c \in found : c.type \in HardContext THEN "SUPPRESS"
    ELSE IF \E c \in found : c.type \in Dispute THEN "CONTRADICT" ELSE "NONE"

(* _context_effect: one hard context outweighs every dispute.              *)
Effect(found) ==
    IF \E c \in found : c.type \in HardContext THEN "SUPPRESS"
    ELSE IF \E c \in found : c.type \in Dispute THEN "CONTRADICT" ELSE "NONE"

AddContext(c) ==
    /\ contexts' = contexts \cup {c}
    /\ UNCHANGED <<step, reasoningVars, queue, agenda, economicVars, register>>

(* The run's diagnostics are done and its signals can be read.             *)
DrawSignals(r) ==
    /\ step[r] = "ABSENT" /\ step' = [step EXCEPT ![r] = "DRAWN"]
    /\ UNCHANGED <<contexts, reasoningVars, queue, agenda, economicVars, register>>

--------------------------------------------------------------------------------
(* run_reasoning_engine.                                                   *)

Alike(a, b) == a.test = b.test /\ a.type = b.type /\ a.entity = b.entity
Repeats(r, sig) == \E o \in AgendaRuns \ {r} : step[o] # "ABSENT" /\ \E other \in Range(SignalsOf[o]) : Alike(other, sig)

Confidence(sig, contradicted) ==
    LET c == IF sig.eligibility = "FULL" THEN 2 ELSE IF sig.eligibility = "PARTIAL" THEN 1 ELSE 0
    IN  IF ~contradicted THEN c ELSE IF c = 2 THEN 1 ELSE 0
Priority(mat, confidence) ==
    IF Rank[mat] + confidence >= 4 THEN 3 ELSE IF Rank[mat] + confidence >= 2 THEN 2 ELSE 1

ClusterKey(sig) ==
    CASE sig.type \in Concentration -> <<"CUSTOMER_CONCENTRATION">>
      [] sig.type \in CustomerFall \cup {"COMPARABLE_REVENUE_CHANGE", "CUSTOMER_GROWTH"} -> <<"REVENUE_MOVEMENT", sig.entity>>
      [] sig.type = "CONTRIBUTION_MARGIN_CHANGE" -> <<"MARGIN_MOVEMENT">>
      [] sig.type \in Receivables -> <<"RECEIVABLES">>
      [] OTHER -> <<sig.test, sig.type, sig.entity>>
(* _finding_identity_key: the cluster and the title its type is given.     *)
FindingKey(sig) ==
    <<ClusterKey(sig), CASE sig.type \in Concentration -> "Customer concentration exposure"
                         [] sig.type \in CustomerFall -> "Material customer revenue movement"
                         [] OTHER -> sig.type>>

(* The attention budget: each finding once, by the best of its versions.   *)
Budgeted(found) ==
    LET better(v, w) == v.priority > w.priority \/ (v.priority = w.priority /\ v.at < w.at)
        best == {v \in found : \A w \in found \ {v} : w.key = v.key => better(v, w)}
        position(v) == CHOOSE i \in {w.at : w \in {x \in found : x.key = v.key}} :
                           \A w \in found : w.key = v.key => i <= w.at
        of(i) == CHOOSE v \in best : position(v) = i
        outranks(i, j) == \/ of(i).priority > of(j).priority
                          \/ of(i).priority = of(j).priority /\ Rank[of(i).mat] > Rank[of(j).mat]
        order == SetToSortSeq({position(v) : v \in best},
                              LAMBDA i, j : outranks(i, j) \/ (~outranks(j, i) /\ i < j))
    IN  [k \in 1..(IF Len(order) < MaxItems THEN Len(order) ELSE MaxItems) |->
            [object |-> "FINDING", id |-> of(order[k]).key, priority |-> of(order[k]).priority]]

Reason(r) ==
    LET effect(i) == Effect(Context(SignalAt(r, i)))
        read == DOMAIN SignalsOf[r]
        quiet == {i \in read : effect(i) = "SUPPRESS"}
        told == {i \in read \ quiet : Rank[SignalAt(r, i).mat] > 0}
        raised == {i \in told : Rank[SignalAt(r, i).mat] >= 2 /\ effect(i) # "CONTRADICT"}
        version(i) == LET sig == SignalAt(r, i) IN
            [run |-> r, at |-> i, key |-> FindingKey(sig), mat |-> sig.mat, priority |-> Priority(sig.mat, Confidence(sig, FALSE))]
        members(k) == {i \in told : ClusterKey(SignalAt(r, i)) = k}
        heaviest(m) == CHOOSE i \in m : \A j \in m \ {i} :
            LET a == Rank[SignalAt(r, i).mat]
                b == Rank[SignalAt(r, j).mat]
            IN  a > b \/ (a = b /\ i < j)
        keys == {k \in {ClusterKey(SignalAt(r, i)) : i \in told} : Cardinality(members(k)) > 1}
    IN  /\ Advance(r, "DRAWN", "REASONED")
        /\ suppressed' = suppressed \cup {<<r, i>> : i \in quiet}
        /\ profiles' = profiles \cup
             {[run |-> r, at |-> i, state |-> IF Repeats(r, SignalAt(r, i)) THEN "REPEATED" ELSE "EMERGING"] : i \in read}
        /\ bundles' = bundles \cup
             {[run |-> r, at |-> i, context |-> Context(SignalAt(r, i)),
               confidence |-> Confidence(SignalAt(r, i), effect(i) = "CONTRADICT"),
               status |-> IF effect(i) = "CONTRADICT" THEN "HELD_CONTRADICTORY" ELSE "READY_FOR_FD_REVIEW"] : i \in told}
        /\ clusters' = clusters \cup {[run |-> r, key |-> k, members |-> members(k), primary |-> heaviest(members(k))] : k \in keys}
        /\ versions' = versions \cup {version(i) : i \in raised}
        /\ findings' = Reached(findings, {FindingKey(SignalAt(r, i)) : i \in raised}, r)
        /\ queue' = [queue EXCEPT ![r] = Budgeted({version(i) : i \in raised})]
        /\ UNCHANGED <<contexts, agenda, economicVars, register>>

--------------------------------------------------------------------------------
(* build_management_attention: it reads the signals again, not the         *)
(* findings, so neither suppression nor contradiction reaches it.          *)

Theme(sig) ==
    CASE sig.family = "RISK" \/ sig.type \in {"RECONCILIATION_EXCEPTION", "GOVERNANCE_ACTION_CANDIDATE"} -> "FINANCIAL_INTEGRITY"
      [] sig.family = "CUS" -> "CUSTOMER_ECONOMICS"
      [] sig.family = "SUP" -> "SUPPLIER_DEPENDENCY"
      [] sig.test = "PEO-04" \/ sig.type = "WORK_CENTRE_UTILISATION" -> "CAPACITY_CONSTRAINT"
      [] sig.family = "WC" \/ sig.type \in Receivables -> "WORKING_CAPITAL"
      [] sig.family \in {"GM", "PRI"} -> "MARGIN_PRICING"
      [] sig.family = "REV" -> "REVENUE_PERFORMANCE"
      [] sig.family = "FCST" -> "FORECAST_CONTROL"
      [] sig.family = "PEO" -> "PEOPLE_PRODUCTIVITY"
      [] OTHER -> "OTHER"
Tie == [FINANCIAL_INTEGRITY |-> 5, CAPACITY_CONSTRAINT |-> 4, MARGIN_PRICING |-> 4, WORKING_CAPITAL |-> 3,
        CUSTOMER_ECONOMICS |-> 3, SUPPLIER_DEPENDENCY |-> 2, REVENUE_PERFORMANCE |-> 2, FORECAST_CONTROL |-> 2,
        PEOPLE_PRODUCTIVITY |-> 2, DATA_CAPACITY |-> 3]

Grouped(r, theme) == {i \in DOMAIN SignalsOf[r] : Rank[SignalAt(r, i).mat] >= 2 /\ Theme(SignalAt(r, i)) = theme}
(* The themes that may be selected; a refused capacity schedule is one.    *)
ThemesOf(r) ==
    {theme \in DOMAIN Tie : Grouped(r, theme) # {}} \cup (IF r \in CapacityRefused THEN {"DATA_CAPACITY"} ELSE {})
Score(r, theme) ==
    LET rows == Grouped(r, theme)
        several == Cardinality(rows) >= 2
    IN  IF rows = {} THEN 2
        ELSE (IF \E i \in rows : SignalAt(r, i).mat = "HIGH" THEN 3 ELSE 2)
             + (IF several THEN 1 ELSE 0) + (IF theme = "FINANCIAL_INTEGRITY" /\ several THEN 1 ELSE 0)
Weight(r, theme) == <<Score(r, theme), Tie[theme], Cardinality(Grouped(r, theme))>>
Heavier(a, b) == \E k \in 1..3 : a[k] > b[k] /\ \A l \in 1..(k - 1) : a[l] = b[l]

(* The sort; themes that weigh the same stand in any order.                *)
Sorted(r, order) ==
    \A i, j \in DOMAIN order : i < j => ~Heavier(Weight(r, order[j]), Weight(r, order[i]))

BuildAgenda(r) ==
    /\ Advance(r, "REASONED", "AGREED")
    /\ \E order \in SetToSeqs(ThemesOf(r)) :
          /\ Sorted(r, order)
          /\ LET some == SubSeq(order, 1, IF Len(order) < MaxItems THEN Len(order) ELSE MaxItems)
                 selected == IF Len(some) < MinItems THEN order ELSE some
                 item(k) == LET theme == selected[k] IN
                     [theme |-> theme, priority |-> IF Score(r, theme) >= 4 THEN 3 ELSE 2, evidence |-> Grouped(r, theme)]
             IN  /\ agenda' = [agenda EXCEPT ![r] = [k \in DOMAIN selected |-> item(k)]]
                 /\ queue' = [queue EXCEPT ![r] = [k \in DOMAIN selected |->
                        [object |-> "MANAGEMENT_ATTENTION", id |-> selected[k], priority |-> item(k).priority]]]
    /\ UNCHANGED <<contexts, reasoningVars, economicVars, register>>

--------------------------------------------------------------------------------
(* run_economic_engine: one signal speaks for a finding, the latest of the *)
(* run.  A fall is a negative amount.                                      *)

StoryKey(sig) ==
    CASE sig.type \in Concentration -> <<"CUSTOMER_CONCENTRATION">>
      [] sig.type \in CustomerFall \cup {"CUSTOMER_GROWTH"} -> <<"CUSTOMER_REVENUE", sig.entity>>
      [] sig.type = "COMPARABLE_REVENUE_CHANGE" -> <<"BUSINESS_REVENUE_MOVEMENT">>
      [] sig.type = "CONTRIBUTION_MARGIN_CHANGE" -> <<"BUSINESS_MARGIN_MOVEMENT">>
      [] sig.type \in Receivables -> <<"RECEIVABLES">>
      [] OTHER -> <<sig.test, sig.type, sig.entity>>
Falls(sig) == sig.fall /\ sig.type \in CustomerFall \cup {"COMPARABLE_REVENUE_CHANGE"}

KindsOf(sig) ==
    (IF Falls(sig) THEN {"IMPACT"} ELSE {})
    \cup (IF sig.type \in Concentration THEN {"EXPOSURE"} ELSE {})
    \cup (IF \/ Falls(sig)
             \/ sig.type \in Concentration \cup {"CONTRIBUTION_MARGIN_CHANGE", "AR_OVERDUE_OUTSTANDING"}
          THEN {"CANDIDATE"} ELSE {})
(* A margin movement and a concentration give no amount.                   *)
Theoretical(sig) == Falls(sig) \/ sig.type = "AR_OVERDUE_OUTSTANDING"

ResolveEconomics(r) ==
    LET found == {v.key : v \in {w \in versions : w.run = r}}
        speaks(k) == CHOOSE v \in versions : v.run = r /\ v.key = k /\ \A w \in versions : w.run = r /\ w.key = k => w.at <= v.at
        said(k) == SignalAt(r, speaks(k).at)
    IN  /\ Advance(r, "AGREED", "RESOLVED")
        /\ stories' = Reached(stories, {StoryKey(said(k)) : k \in found}, r)
        /\ economics' = economics \cup
             UNION {{[run |-> r, kind |-> kind, finding |-> k, story |-> StoryKey(said(k)), amount |-> Theoretical(said(k))] :
                       kind \in KindsOf(said(k))} : k \in found}
        /\ UNCHANGED <<contexts, reasoningVars, queue, agenda, register>>

--------------------------------------------------------------------------------
(* build_action_opportunity_register: a candidate of the run whose finding *)
(* rests on a signal of the theme; the first made of several, taken here   *)
(* as any.                                                                 *)

Unpriced == {"FINANCIAL_INTEGRITY", "CAPACITY_CONSTRAINT", "DATA_CAPACITY"}

Supporting(r, item) ==
    {o \in economics : /\ o.run = r /\ o.kind = "CANDIDATE"
                       /\ \E v \in versions : v.run = r /\ v.key = o.finding /\ v.at \in item.evidence}

BuildRegister(r) ==
    /\ Advance(r, "RESOLVED", "REGISTERED")
    /\ \E chosen \in [DOMAIN agenda[r] -> {{}} \cup {{o} : o \in economics}] :
          /\ \A k \in DOMAIN chosen :
                LET able == Supporting(r, agenda[r][k])
                IN  IF able = {} THEN chosen[k] = {} ELSE \E o \in able : chosen[k] = {o}
          /\ register' = [register EXCEPT ![r] = [k \in DOMAIN chosen |->
                LET theme == agenda[r][k].theme
                IN  [theme |-> theme, candidate |-> chosen[k],
                     amount |-> theme \notin Unpriced /\ \E o \in chosen[k] : o.amount]]]
    /\ UNCHANGED <<contexts, reasoningVars, queue, agenda, economicVars>>

AgendaInit ==
    /\ contexts = {} /\ step = [r \in AgendaRuns |-> "ABSENT"]
    /\ suppressed = {} /\ profiles = {} /\ bundles = {} /\ clusters = {}
    /\ findings = <<>> /\ versions = {} /\ stories = <<>> /\ economics = {}
    /\ queue = [r \in AgendaRuns |-> <<>>] /\ agenda = [r \in AgendaRuns |-> <<>>]
    /\ register = [r \in AgendaRuns |-> <<>>]

AgendaNext ==
    \/ \E c \in ContextEvents \ contexts : AddContext(c)
    \/ \E r \in AgendaRuns :
          DrawSignals(r) \/ Reason(r) \/ BuildAgenda(r) \/ ResolveEconomics(r) \/ BuildRegister(r)

AgendaSpec == AgendaInit /\ [][AgendaNext]_agendaVars

AgendaTypeOK ==
    /\ contexts \subseteq ContextEvents
    /\ step \in [AgendaRuns -> {"ABSENT"} \cup Range(Steps)]
    /\ \A row \in suppressed : row[1] \in AgendaRuns /\ row[2] \in DOMAIN SignalsOf[row[1]]
    /\ \A row \in profiles \cup bundles \cup versions : row.run \in AgendaRuns /\ row.at \in DOMAIN SignalsOf[row.run]
    /\ \A k \in DOMAIN findings : findings[k].first \in AgendaRuns /\ findings[k].last \in AgendaRuns
    /\ \A k \in DOMAIN stories : stories[k].first \in AgendaRuns /\ stories[k].last \in AgendaRuns
    /\ \A o \in economics : o.finding \in DOMAIN findings /\ o.story \in DOMAIN stories

--------------------------------------------------------------------------------
(* A finding is earned: each of its versions is evidenced by a bundle that *)
(* holds no context explaining or disputing it; it was first and last seen *)
(* in runs that gave it one; and of the runs that reasoned about the same  *)
(* signal at most one, whatever their order, calls it EMERGING             *)
(* (reasoning/engine.py:41, 52, 128).                                      *)
FindingsAreEarned ==
    /\ \A v \in versions : \E b \in bundles :
          /\ b.run = v.run /\ b.at = v.at /\ b.status = "READY_FOR_FD_REVIEW"
          /\ \A c \in b.context : c.type \notin HardContext \cup Dispute
    /\ \A k \in DOMAIN findings : \A r \in {findings[k].first, findings[k].last} :
          \E v \in versions : v.run = r /\ v.key = k
    /\ \A p, q \in profiles :
          p.run # q.run /\ Alike(SignalAt(p.run, p.at), SignalAt(q.run, q.at)) => "REPEATED" \in {p.state, q.state}

(* An agenda is short, names each theme once and rests on every material   *)
(* signal of the theme; no theme left out outweighs one selected; and the  *)
(* run's review queue is the agenda, nothing of the finding queue it       *)
(* replaced (management/attention.py:90, 103).                             *)
AgendaIsEarned ==
    \A r \in {s \in AgendaRuns : step[s] \notin {"ABSENT", "DRAWN", "REASONED"}} :
        LET chosen == {item.theme : item \in Range(agenda[r])}
        IN  /\ Len(agenda[r]) = Cardinality(chosen) /\ Len(agenda[r]) <= MaxItems
            /\ \A item \in Range(agenda[r]) :
                  /\ item.evidence = {} => item.theme = "DATA_CAPACITY"
                  /\ \A i \in DOMAIN SignalsOf[r] :
                        i \in item.evidence <=> Theme(SignalAt(r, i)) = item.theme /\ SignalAt(r, i).mat \in {"MEDIUM", "HIGH"}
                  /\ \A theme \in ThemesOf(r) \ chosen : Score(r, theme) <= Score(r, item.theme)
            /\ [k \in DOMAIN queue[r] |-> queue[r][k].id] = [k \in DOMAIN agenda[r] |-> agenda[r][k].theme]

(* The register adds no economics of its own: an item follows its agenda   *)
(* item, and the candidate beside it rests on a finding that context       *)
(* neither explains nor disputes, of a signal of the theme; a finding has  *)
(* one candidate per run; only a fall or an overdue balance has an amount, *)
(* never a control or capacity item (opportunity_register.py:54).          *)
RegisterIsTraceable ==
    \A r \in {s \in AgendaRuns : step[s] = "REGISTERED"} :
        /\ [k \in DOMAIN register[r] |-> register[r][k].theme] = [k \in DOMAIN agenda[r] |-> agenda[r][k].theme]
        /\ \A k \in DOMAIN register[r] : \A o \in register[r][k].candidate :
              /\ \E v \in versions : /\ v.run = r /\ v.key = o.finding /\ <<r, v.at>> \notin suppressed
                                     /\ Theme(SignalAt(r, v.at)) = register[r][k].theme
              /\ register[r][k].amount =>
                    \E v \in versions : v.run = r /\ v.key = o.finding /\ (SignalAt(r, v.at).fall \/ SignalAt(r, v.at).type \in Receivables)
        /\ \A o, p \in economics : o.run = r /\ p.run = r /\ o.kind = p.kind /\ o.finding = p.finding => o = p

(* What the owner is told can be followed back: from the register over the *)
(* agenda and its findings to the signals of the run.                      *)
AdviceIsTraceable == FindingsAreEarned /\ AgendaIsEarned /\ RegisterIsTraceable
================================================================================
