----------------------------- MODULE EvidenceGraph -----------------------------
(***************************************************************************)
(* Governed relationships between evidence (reasoning/graph): a Fact, a    *)
(* Finding or a Signal is read with the ancestry its owning store retains, *)
(* two of them are compared, and what a caller says of them is kept as a   *)
(* revised record of an evidence link.                                     *)
(*                                                                         *)
(* Two databases: the link, its record and its audit event are committed   *)
(* together, while the rows of the ancestry change on their own.  A call   *)
(* reads the ends, then reads them again to compare them, then stores.     *)
(***************************************************************************)
EXTENDS Integers, Sequences, FiniteSets, SequencesExt, FiniteSetsExt

CONSTANTS
    Origins, Origin,        \* rows of the owning store, and what they are
    Objects, Object,        \* reasoning objects, and what they are
    Asked,                  \* relationships that callers ask to record
    Recorders,              \* callers, each a graph of its own
    GraphRuns,
    MinObservations,        \* a series is at least so long: 4
    MaxEvents, MaxRevision  \* bounds: audit events, revisions of an object

System == "SYSTEM_DERIVED"
Human == {"MANAGEMENT_ASSERTION", "HUMAN_FD_JUDGEMENT", "LEGACY_UNCLASSIFIED"}
Relationship == {"SUPPORTS", "CONTRADICTS", "QUANTIFIES", "CONTEXTUALISES", "MITIGATES",
                 "TEMPORALLY_PRECEDES", "CO_MOVES_WITH"}

(* A version stands with its data set; OTHER is a kind no table is known   *)
(* for; `leads` is what the row was derived from.                          *)
OriginFacts ==
    [kind : {"SIGNAL", "PRIMITIVE", "DATASET", "FILE", "RECORD", "OTHER"}, leads : SUBSET Origins]

(* `signal` heads the lineage; `observes` lists the Facts a Finding        *)
(* observes, one at each revision; `rank` orders the identities; `family`  *)
(* is the meaning of the value; a period of <<>> is not known.             *)
ObjectFacts ==
    [type : {"FACT", "FINDING", "SIGNAL"}, signal : Origins \cup {"NONE"}, observes : Seq(Objects),
     authority : {System} \cup Human, entity : STRING, run : GraphRuns, rank : Nat, family : STRING,
     basis : STRING, period : {<<>>} \cup (Nat \X Nat), value : Int]

Ask == [source : Objects, target : Objects, relationship : Relationship, rationale : STRING,
        series : {<<>>} \cup (Seq(Objects) \X Seq(Objects)), runs : GraphRuns \X GraphRuns]

ASSUME GraphAssumption ==
    /\ Origin \in [Origins -> OriginFacts] /\ Object \in [Objects -> ObjectFacts]
    /\ Asked \subseteq Ask /\ \A ask \in Asked : ask.source # ask.target
    /\ IsFiniteSet(Origins) /\ \A o, q \in Objects : Object[o].rank = Object[q].rank => o = q
    /\ MaxEvents \in Nat /\ MaxRevision \in Nat \ {0}

VARIABLES
    origins,        \* [Origins -> the state of the row]
    standing,       \* [Objects -> its revision, and whether it is evidence in full]
    evidenceLinks,  \* evidence links of the client
    graphRecords,   \* graph records
    graphEvents,    \* audit events of graph records, in order
    recorders       \* [Recorders -> the call it is in]

graphVars == <<origins, standing, evidenceLinks, graphRecords, graphEvents, recorders>>

RowState == {"SOUND", "REWRITTEN", "MISSING"}

GraphInit ==
    /\ origins = [r \in Origins |-> "SOUND"]
    /\ standing = [o \in Objects |-> [revision |-> 1, full |-> TRUE]]
    /\ evidenceLinks = {} /\ graphRecords = {} /\ graphEvents = <<>>
    /\ recorders = [c \in Recorders |-> [at |-> "IDLE"]]

--------------------------------------------------------------------------------
(* The walk.  A row that is not there, or of an unknown kind, ends it.     *)
Retained(r) == origins[r] # "MISSING" /\ Origin[r].kind # "OTHER"
Leads(r) == IF Retained(r) THEN Origin[r].leads ELSE {}
Walk(rows) ==
    LET seen[visited \in SUBSET Origins] ==
            LET further == UNION {Leads(r) : r \in visited} IN
            IF further \subseteq visited THEN visited ELSE seen[visited \cup further]
    IN seen[rows]

(* Why an ancestry is not complete: rows that are gone, lead nowhere, lead *)
(* back to themselves, or are files that may have changed; or no file.     *)
Unresolved(r) ==
    \/ ~Retained(r)
    \/ Origin[r].kind \in {"SIGNAL", "PRIMITIVE", "DATASET", "RECORD"} /\ Leads(r) = {}
    \/ Origin[r].kind = "FILE" /\ origins[r] # "SOUND"
    \/ Origin[r].kind \in {"SIGNAL", "PRIMITIVE"} /\ r \in Walk(Leads(r))

OfKind(rows, kind) == {r \in rows : Origin[r].kind = kind}
AncestryOf(seen, found, lost) ==
    [references |-> seen, datasets |-> OfKind(found, "DATASET"), files |-> OfKind(found, "FILE"),
     primitives |-> OfKind(found, "PRIMITIVE"), records |-> OfKind(found, "RECORD"),
     unresolved |-> lost, complete |-> lost = {} /\ OfKind(found, "FILE") # {}]
Ancestry(seen) == AncestryOf(seen, {r \in seen : Retained(r)}, {r \in seen : Unresolved(r)})

(* What the lineage of an object names: its signal, and the data sets and  *)
(* primitive results that one was made of.                                 *)
Named(o) ==
    LET s == Object[o].signal
    IN IF s = "NONE" THEN {} ELSE {s} \cup {r \in Origin[s].leads : Origin[r].kind \in {"DATASET", "PRIMITIVE"}}

(* A Finding is read through the only Fact of the run it observes.         *)
Observed(o, run) ==
    {Object[o].observes[k] : k \in {k \in DOMAIN Object[o].observes :
        k <= standing[o].revision /\ Object[Object[o].observes[k]].run = run}}

EvidenceReadable(o) ==
    /\ \A r \in Named(o) : Retained(r)
    /\ Object[o].type = "FACT" => origins[Object[o].signal] = "SOUND"
Readable(o, run) ==
    IF Object[o].type = "FINDING"
    THEN Cardinality(Observed(o, run)) = 1 /\ \A f \in Observed(o, run) : EvidenceReadable(f)
    ELSE Object[o].run = run /\ EvidenceReadable(o)

Node(o, run) ==
    LET base == IF Object[o].type = "FINDING" THEN CHOOSE f \in Observed(o, run) : TRUE ELSE o
    IN [object |-> o, revision |-> standing[o].revision, run |-> run, entity |-> Object[base].entity,
        authority |-> Object[base].authority, basis |-> Object[base].basis, period |-> Object[base].period,
        ancestry |-> Ancestry(Walk(Named(base))),
        eligible |-> Object[o].type # "SIGNAL" /\ standing[base].full /\ standing[o].full]

Temporal(a, b) ==
    IF <<a.entity, a.basis>> # <<b.entity, b.basis>> THEN "NOT_COMPARABLE"
    ELSE IF <<>> \in {a.period, b.period} THEN "INSUFFICIENT_PERIOD_INFORMATION"
    ELSE IF a.period = b.period THEN "SAME_COMPARABLE_PERIOD"
    ELSE IF a.period[2] < b.period[1] THEN "PRECEDES"
    ELSE IF b.period[2] < a.period[1] THEN "FOLLOWS" ELSE "OVERLAPS"

RootSet(x) == IF x.datasets # {} THEN x.datasets ELSE x.files

Overlap(x, y) ==
    IF RootSet(x) = RootSet(y) THEN "SAME_ANCESTRY"
    ELSE IF RootSet(x) \subseteq RootSet(y) \/ RootSet(y) \subseteq RootSet(x) THEN "SUBSTANTIALLY_SHARED"
    ELSE IF RootSet(x) \cap RootSet(y) # {} THEN "PARTIALLY_SHARED"
    ELSE IF \E of \in {"files", "primitives", "records"} : x[of] \cap y[of] # {} THEN "SUBSTANTIALLY_SHARED"
    ELSE "INDEPENDENT"

Independence(a, b) ==
    IF \A n \in {a, b} : n.ancestry.complete /\ n.eligible /\ n.authority = System
    THEN Overlap(a.ancestry, b.ancestry) ELSE "INDETERMINATE"

Characteristics(a, b) ==
    [independence |-> Independence(a, b), temporal |-> Temporal(a, b),
     authorities |-> <<a.authority, b.authority>>, complete |-> <<a.ancestry.complete, b.ancestry.complete>>,
     shared |-> a.ancestry.references \cap b.ancestry.references,
     contradicted |-> \E l \in evidenceLinks :
        l.relationship = "CONTRADICTS" /\ l.target \in {a.object, b.object}]

IndependentEvidence(a, candidates) == {b \in candidates \ {a} : Independence(a, b) = "INDEPENDENT"}

Aligned(facts, others) ==
    Len(facts) = Len(others) /\ Len(facts) >= MinObservations /\ IsInjective(facts) /\ IsInjective(others)

(* Two series of Facts move together: the same ordered periods of one      *)
(* length, one meaning each, and the same direction at every step.         *)
Direction(f, g) ==
    IF Object[f].value < Object[g].value THEN 1 ELSE IF Object[f].value > Object[g].value THEN -1 ELSE 0
CoMove(ask) ==
    /\ ask.series # <<>> /\ Aligned(ask.series[1], ask.series[2])
    /\ \A side \in {1, 2} : LET facts == ask.series[side] IN
        /\ Last(facts) = IF side = 1 THEN ask.source ELSE ask.target
        /\ \A k \in DOMAIN facts : LET f == facts[k] p == Object[f].period first == facts[1] IN
            /\ Object[f].type = "FACT" /\ Readable(f, Object[f].run) /\ p # <<>>
            /\ LET n == Node(f, Object[f].run) IN n.eligible /\ n.ancestry.complete
            /\ Object[f].family = Object[first].family /\ Object[f].entity = Object[first].entity
            /\ p[2] - p[1] = Object[first].period[2] - Object[first].period[1]
            /\ k > 1 => Object[facts[k - 1]].period[2] < p[1] /\ Direction(facts[k - 1], f) # 0
    /\ \A k \in DOMAIN ask.series[1] : LET f == ask.series[1][k] g == ask.series[2][k] IN
        /\ Object[f].period = Object[g].period
        /\ k > 1 => Direction(ask.series[1][k - 1], f) = Direction(ask.series[2][k - 1], g)

--------------------------------------------------------------------------------
(* The owning stores, and the reasoning above them, go on: a Fact is       *)
(* revised when it is superseded or invalidated, and only then.            *)
Touch(r, state) ==
    /\ origins[r] # state /\ (state = "REWRITTEN" => Origin[r].kind \in {"SIGNAL", "FILE"})
    /\ origins' = [origins EXCEPT ![r] = state]
    /\ UNCHANGED <<standing, evidenceLinks, graphRecords, graphEvents, recorders>>
Revise(o, full) ==
    /\ standing[o].revision < MaxRevision
    /\ Object[o].type = "FACT" => standing[o].full /\ ~full
    /\ standing' = [standing EXCEPT ![o] = [revision |-> @.revision + 1, full |-> full]]
    /\ UNCHANGED <<origins, evidenceLinks, graphRecords, graphEvents, recorders>>

LinkOf(ask, made) == [source |-> ask.source, target |-> ask.target, relationship |-> ask.relationship, made |-> made]

(* Another component links the same ends, under an identity of its own.    *)
Relate(ask) ==
    /\ evidenceLinks' = evidenceLinks \cup {LinkOf(ask, "FOUNDATION")}
    /\ UNCHANGED <<origins, standing, graphRecords, graphEvents, recorders>>

(* A migration downgraded past the graph drops its records alone.          *)
Downgrade ==
    /\ graphRecords # {} /\ \A c \in Recorders : recorders[c].at = "IDLE"
    /\ graphRecords' = {}
    /\ UNCHANGED <<origins, standing, evidenceLinks, graphEvents, recorders>>

Latest(link) == CHOOSE r \in graphRecords : r.link = link /\ \A q \in graphRecords : q.link = link => q.revision <= r.revision
Stored(link) == \E r \in graphRecords : r.link = link
LastRevision(link) == IF Stored(link) THEN Latest(link).revision ELSE 0

(* A co-movement has no direction: it is recorded from the lesser identity.*)
Oriented(ask) ==
    IF ask.relationship = "CO_MOVES_WITH" /\ Object[ask.target].rank < Object[ask.source].rank
    THEN [ask EXCEPT !.source = ask.target, !.target = ask.source, !.series = Reverse(@), !.runs = Reverse(@)]
    ELSE ask

BothReadable(ask) == Readable(ask.source, ask.runs[1]) /\ Readable(ask.target, ask.runs[2])
Ends(ask) == <<Node(ask.source, ask.runs[1]), Node(ask.target, ask.runs[2])>>

(* A call begins: what may be said of these ends, as they are read first.  *)
(* `expected` is the revision the caller means to replace, 0 for none.     *)
Admitted(ask, a, b) ==
    /\ a.entity = b.entity
    /\ a.authority \in Human => ask.relationship \in {"CONTEXTUALISES", "CONTRADICTS", "MITIGATES"}
    /\ ask.relationship = "TEMPORALLY_PRECEDES" => Temporal(a, b) = "PRECEDES" /\ a.eligible /\ b.eligible
    /\ IF ask.relationship = "CO_MOVES_WITH" THEN Temporal(a, b) = "SAME_COMPARABLE_PERIOD" /\ CoMove(ask)
       ELSE ask.series = <<>>

BeginLink(c, given) ==
    /\ recorders[c].at = "IDLE"
    /\ \E ask \in {ask \in {Oriented(given)} : BothReadable(ask)} :
       \E ends \in {ends \in {Ends(ask)} : Admitted(ask, ends[1], ends[2])} :
       \E expected \in {0} \cup {r.revision : r \in graphRecords} :
            recorders' = [recorders EXCEPT ![c] =
                [at |-> "READ", ask |-> ask, expected |-> expected, ends |-> ends]]
    /\ UNCHANGED <<origins, standing, evidenceLinks, graphRecords, graphEvents>>

MatchesOf(ask) == {l \in evidenceLinks :
    <<l.source, l.target, l.relationship>> = <<ask.source, ask.target, ask.relationship>>}

CoherentAuthorities(call, compared) ==
    compared.authorities = <<call.ends[1].authority, call.ends[2].authority>>

(* A record is coherent if what was compared agrees with what was read.    *)
Coherent(call, compared) ==
    /\ compared.authorities = <<call.ends[1].authority, call.ends[2].authority>>
    /\ compared.complete = <<call.ends[1].ancestry.complete, call.ends[2].ancestry.complete>>

(* A link that has, or ever had, a record of the graph and has none now.   *)
GovernanceLost(link) ==
    ~Stored(link) /\ (link.made = "GRAPH" \/ \E k \in DOMAIN graphEvents : graphEvents[k].link = link)

(* Whether the call goes on to write: a record that says the same is       *)
(* returned as it is, and one that says something else is replaced only by *)
(* a caller that names its revision.                                       *)
Writes(call, compared, link) ==
    IF ~Stored(link) THEN call.expected = 0
    ELSE LET old == Latest(link)
             same == <<old.ends, old.rationale, old.series>> = <<call.ends, call.ask.rationale, call.ask.series>>
         IN /\ call.expected = old.revision
            /\ same => compared # old.compared

(* The ends are read again and compared.  Links that match are adopted;    *)
(* more than one, or a lost record, is refused.                            *)
Goes(call, compared, link) ==
    /\ Cardinality(MatchesOf(call.ask)) <= 1 /\ Coherent(call, compared)
    /\ Writes(call, compared, link)
    /\ MatchesOf(call.ask) # {} => ~GovernanceLost(link)
Prepared(call, compared, link) ==
    IF Goes(call, compared, link)
    THEN [at |-> "COMPARED", adopted |-> MatchesOf(call.ask) # {},
          row |-> [link |-> link, revision |-> LastRevision(link) + 1, ends |-> call.ends,
                   rationale |-> call.ask.rationale, series |-> call.ask.series, compared |-> compared]]
    ELSE [at |-> "IDLE"]

Compare(c) ==
    /\ recorders[c].at = "READ"
    /\ \E call \in {recorders[c]} :
        \E link \in IF MatchesOf(call.ask) = {} THEN {LinkOf(call.ask, "GRAPH")} ELSE MatchesOf(call.ask) :
        \E ends \in IF BothReadable(call.ask) THEN {Ends(call.ask)} ELSE {<<>>} :
            recorders' = [recorders EXCEPT ![c] =
                IF ends = <<>> THEN [at |-> "IDLE"]
                ELSE Prepared(call, Characteristics(ends[1], ends[2]), link)]
    /\ UNCHANGED <<origins, standing, evidenceLinks, graphRecords, graphEvents>>

(* The primary keys refuse a link, or a revision of it, that a rival has   *)
(* stored meanwhile: nothing of the call stays.                            *)
Taken(call) ==
    \/ ~call.adopted /\ call.row.link \in evidenceLinks
    \/ \E r \in graphRecords : r.link = call.row.link /\ r.revision = call.row.revision

Store(c) ==
    LET call == recorders[c] IN
    /\ call.at = "COMPARED" /\ Len(graphEvents) < MaxEvents
    /\ recorders' = [recorders EXCEPT ![c] = [at |-> "IDLE"]]
    /\ IF Taken(call) THEN UNCHANGED <<evidenceLinks, graphRecords, graphEvents>>
       ELSE /\ evidenceLinks' = evidenceLinks \cup {call.row.link}
            /\ graphRecords' = graphRecords \cup {call.row}
            /\ graphEvents' = Append(graphEvents,
                [link |-> call.row.link, revision |-> call.row.revision])
    /\ UNCHANGED <<origins, standing>>

GraphNext ==
    \/ \E r \in Origins, state \in RowState : Touch(r, state)
    \/ \E o \in Objects, full \in BOOLEAN : Revise(o, full)
    \/ \E ask \in Asked : Relate(ask)
    \/ Downgrade
    \/ \E c \in Recorders :
        (\E ask \in Asked : BeginLink(c, ask)) \/ Compare(c) \/ Store(c)

GraphSpec == GraphInit /\ [][GraphNext]_graphVars

--------------------------------------------------------------------------------
Freshness(record) ==
    IF \E k \in {1, 2} : ~Readable(record.ends[k].object, record.ends[k].run) THEN "UNRESOLVED"
    ELSE IF \A k \in {1, 2} : Node(record.ends[k].object, record.ends[k].run) = record.ends[k]
    THEN "CURRENT" ELSE "STALE"

(* The tables and calls keep their shape.                                  *)
GraphTypeOK ==
    /\ origins \in [Origins -> RowState]
    /\ standing \in [Objects -> [revision : 1 .. MaxRevision, full : BOOLEAN]]
    /\ \A r \in graphRecords : r.link \in evidenceLinks /\ r.revision \in 1 .. MaxEvents
    /\ \A c \in Recorders : recorders[c].at \in {"IDLE", "READ", "COMPARED"}

(* A record that is current and calls its ends independent rests now on    *)
(* files that are whole and that only one of them rests on, and so does    *)
(* whatever is named as independent evidence, although the ends were read  *)
(* twice and the rows changed in between (service.py:109, :282).           *)
Apart(a, b) == LET x == a.ancestry y == b.ancestry IN
    /\ x.files # {} /\ y.files # {} /\ x.references \cap y.references \cap x.files = {}
    /\ \A r \in x.references \cup y.references : origins[r] # "MISSING"
    /\ \A r \in x.files \cup y.files : origins[r] = "SOUND"
CurrentMeansApart ==
    /\ \A r \in graphRecords :
        r.compared.independence = "INDEPENDENT" /\ Freshness(r) = "CURRENT"
            => Apart(r.ends[1], r.ends[2])
    /\ \A run \in GraphRuns : LET nodes == {Node(o, run) : o \in {o \in Objects : Readable(o, run)}} IN
        \A a \in nodes : \A b \in IndependentEvidence(a, nodes) : Apart(a, b)

(* The history of a link is one chain, whoever writes at the same time and *)
(* after the records were lost: no revision is ever given twice, and none  *)
(* stands without those it replaced (service.py:211, :231).                *)
HistoryIsChain ==
    /\ \A k \in DOMAIN graphEvents :
        graphEvents[k].revision = Cardinality({j \in 1 .. k : graphEvents[j].link = graphEvents[k].link})
    /\ \A r \in graphRecords : \A n \in 1 .. r.revision : \E q \in graphRecords : q.link = r.link /\ q.revision = n

(* What is said of two ends is governed once, a co-movement whichever way  *)
(* round it was asked, unless another component linked the same ends too   *)
(* (service.py:175, :196).                                                 *)
GovernedOnce ==
    \A l, q \in {r.link : r \in graphRecords} :
        /\ l # q /\ l.relationship = q.relationship
        /\ \/ <<l.source, l.target>> = <<q.source, q.target>>
           \/ l.relationship = "CO_MOVES_WITH" /\ <<l.source, l.target>> = <<q.target, q.source>>
        => l.source = q.source /\ "FOUNDATION" \in {l.made, q.made}

GraphIsFaithful == CurrentMeansApart /\ HistoryIsChain /\ GovernedOnce

(* What is said of evidence stays true to it, once anything has happened   *)
(* to the graph (reasoning/graph/service.py:109, :211).                    *)
RelationsAreFaithful == GraphInit \/ GraphIsFaithful
================================================================================
