------------------------------ MODULE MCEvidence ------------------------------
(* The kinds of evidence that are owned row by row: receivable packages,   *)
(* monthly figures, the contexts of accounting figures, bridges between    *)
(* them, and what is said of two objects and their ancestry.  The modules  *)
(* share no state, so each is explored while the others are where they     *)
(* start.                                                                  *)
EXTENDS ReceivablesEvidence, MonthlyEvidence, MeasurementContexts, EconomicBridges, EvidenceGraph, TLC

CONSTANTS
    a1, b1, e1, z, da, db, dc, de,                      \* packages, a zero proof, definitions
    r1, r2, r3, g1, g2, g3, pa, pb, pc, pd, ma, mb,     \* monthly figures, component proofs, mappings
    l1, l2, p1, s1, f1,                                 \* measurements
    X, Y, Z,                                            \* packs
    t1, t2, t3, v1, v2, v3, x1, x2, q1,                 \* signals, data sets, files, a primitive result
    A, A0, B, B0, C, G, H, u1, u2                       \* Facts, a Finding, a note, callers

(* A package, its correction, and an empty one; readings of each, one of   *)
(* them an incomplete competitor.                                          *)
MCPackage ==
    a1 :> [empty |-> FALSE, qualifying |-> FALSE, gaps |-> {}, kind |-> "ORIGINAL", from |-> "NONE"]
    @@ b1 :> [empty |-> FALSE, qualifying |-> FALSE, gaps |-> {}, kind |-> "CORRECTION", from |-> a1]
    @@ e1 :> [empty |-> TRUE, qualifying |-> FALSE, gaps |-> {}, kind |-> "ORIGINAL", from |-> "NONE"]
MCZeroProof == z :> [package |-> e1, completed |-> TRUE, revision |-> 1, kind |-> "ORIGINAL", from |-> "NONE"]
MCReading(package, complete, revision, kind, from) ==
    [package |-> package, complete |-> complete, revision |-> revision, kind |-> kind, from |-> from]
MCDefinition ==
    da :> MCReading(a1, TRUE, 1, "ORIGINAL", "NONE") @@ db :> MCReading(b1, TRUE, 2, "CORRECTION", da)
    @@ dc :> MCReading(a1, FALSE, 1, "ORIGINAL", "NONE") @@ de :> MCReading(e1, TRUE, 1, "ORIGINAL", "NONE")

Seconds == {i \in DOMAIN absences : absences[i].run = 2} \cup {i \in DOMAIN zeros : zeros[i].run = 2}
           \cup {i \in DOMAIN projections : projections[i].run = 2}
Summaries == Len(readiness["SNAPSHOT"]) + Len(readiness["ABSENCE"])
Competing == Summaries = 0 /\ Seconds = {} /\ withdrawn \subseteq {a1, da, z} /\ named[de] = 0
Summarised ==
    /\ Summaries <= 2 /\ named[dc] = 0 /\ Seconds = {}
    /\ registered \in SUBSET {a1, b1} \cup SUBSET {e1, z} /\ withdrawn \in {{}, {a1}, {z}}
    /\ Len(unknowns) <= 1 /\ Len(projections) <= 1
Shared == Summaries <= 1 /\ registered \subseteq {e1, z} /\ withdrawn \subseteq {z} /\ Len(unknowns) <= 1
ReceivablesExplored == Competing \/ Summarised \/ Shared

(* Revenue with a correction and a rival, contribution with a restatement  *)
(* that is corrected; proofs of the pairs.                                 *)
MCMonthly(family, kind, from, mapping, revenue, cost) ==
    [family |-> family, lacks |-> {}, kind |-> kind, from |-> from, mapping |-> mapping, revenue |-> revenue, cost |-> cost]
MCMonth ==
    r1 :> MCMonthly("REVENUE", "ORIGINAL", "NONE", ma, 4, 0)
    @@ r2 :> MCMonthly("REVENUE", "CORRECTION", r1, mb, 3, 0)
    @@ r3 :> MCMonthly("REVENUE", "ORIGINAL", "NONE", ma, 4, 0)
    @@ g1 :> MCMonthly("CONTRIBUTION_0", "ORIGINAL", "NONE", ma, 4, 1)
    @@ g2 :> MCMonthly("CONTRIBUTION_0", "RESTATEMENT", g1, ma, 3, 1)
    @@ g3 :> MCMonthly("CONTRIBUTION_0", "CORRECTION", g2, mb, 3, 0)
MCMappingFrom == ma :> "NONE" @@ mb :> ma
MCPair(revenue, contribution, revision, kind, from) ==
    [revenue |-> revenue, contribution |-> contribution, exact |-> TRUE, revision |-> revision, kind |-> kind, from |-> from]
MCProof ==
    pa :> MCPair(r1, g1, 1, "ORIGINAL", "NONE") @@ pb :> MCPair(r2, g2, 2, "CORRECTION", pa)
    @@ pc :> MCPair(r2, g1, 1, "ORIGINAL", "NONE") @@ pd :> MCPair(r2, g3, 3, "CORRECTION", pb)

Doubtful == {<<r1, "SOURCE">>, <<g1, "CONTROL">>, <<g2, "CHART">>, <<pa, "PROOF">>, <<pb, "PROOF">>}
MonthlyExplored ==
    /\ doubted \subseteq Doubtful /\ Len(bindings) <= 3
    /\ r3 \in imported => Len(bindings) <= 1 /\ doubted \cap (Months \X Part) = {}
    /\ pc \in imported => doubted \cap (Months \X Part) = {}

(* One figure from its line to its fact, and a line that restates it; one  *)
(* thing is out of order at a time.                                        *)
MCFigure(resource, run, from) ==
    [resource |-> resource, run |-> run, from |-> from, declared |-> 1, family |-> "REVENUE", period |-> "JAN"]
MCSlot == l1 :> MCFigure("LINE", "NONE", "NONE") @@ l2 :> MCFigure("LINE", "NONE", "NONE")
          @@ p1 :> MCFigure("PRIMITIVE", "R1", l1) @@ s1 :> MCFigure("SIGNAL", "R1", p1) @@ f1 :> MCFigure("FACT", "R1", s1)
Sound == [value |-> 1, status |-> "LIVE"]
Disturbed == {x \in Slots : IF rows[x] = Absent THEN \E y \in Slots : Slot[y].from = x /\ rows[y] # Absent
                            ELSE rows[x] # Sound}
ContextsExplored ==
    /\ Cardinality(Disturbed) + Cardinality({x \in Lines : files[x] # "RETAINED"}) <= 1
    /\ rows[l2] = Absent \/ rows[p1] = Absent

(* A pack, its restatement, and the next year's.                           *)
MCBalance(ar, inventory, ap) == [ar |-> ar, inventory |-> inventory, ap |-> ap]
MCDeclared(year, history, opening, closing, selected, before, after) ==
    [year |-> year, history |-> history, revenue |-> [opening |-> opening, closing |-> closing],
     selected |-> selected, stock |-> [opening |-> before, closing |-> after]]
MCPack == X :> MCDeclared(2023, FALSE, 10, 14, 3, MCBalance(5, 4, 3), MCBalance(6, 4, 4))
       @@ Y :> MCDeclared(2023, TRUE, 11, 14, 2, MCBalance(5, 4, 2), MCBalance(7, 4, 4))
       @@ Z :> MCDeclared(2024, FALSE, 14, 12, 1, MCBalance(7, 4, 4), MCBalance(7, 5, 4))
Damaged == {x \in Packs : workbooks[x] \in {"LOST", "ALTERED"}}
BridgesExplored ==
    /\ Cardinality(Damaged) <= 1 /\ (Damaged = {} \/ bridges # <<>>)
    /\ "ABSENT" \in {workbooks[Y], workbooks[Z]}
    /\ \A l \in Ledger : Len(versions[l]) <= 3
    /\ bridges = <<>> \/ bridges[1].run = "R1"

(* Facts on three signals, two of which rest on one file, a Finding that   *)
(* observes two of them and a note; the series have two Facts.             *)
MCOriginOf(kind, leads) == [kind |-> kind, leads |-> leads]
MCOrigin ==
    t1 :> MCOriginOf("SIGNAL", {v1}) @@ t2 :> MCOriginOf("SIGNAL", {v2}) @@ t3 :> MCOriginOf("SIGNAL", {q1})
    @@ q1 :> MCOriginOf("PRIMITIVE", {v3}) @@ v1 :> MCOriginOf("DATASET", {x1})
    @@ v2 :> MCOriginOf("DATASET", {x2}) @@ v3 :> MCOriginOf("DATASET", {x1})
    @@ x1 :> MCOriginOf("FILE", {}) @@ x2 :> MCOriginOf("FILE", {})
MCObjectOf(type, signal, observes, authority, run, rank, family, period, value) ==
    [type |-> type, signal |-> signal, observes |-> observes, authority |-> authority, entity |-> "E",
     run |-> run, rank |-> rank, family |-> family, basis |-> "MONTH", period |-> period, value |-> value]
MCObject ==
    A0 :> MCObjectOf("FACT", t1, <<>>, System, "R1", 1, "REVENUE", <<1, 1>>, 1)
    @@ A :> MCObjectOf("FACT", t1, <<>>, System, "R2", 2, "REVENUE", <<2, 2>>, 2)
    @@ B0 :> MCObjectOf("FACT", t2, <<>>, System, "R1", 3, "ORDERS", <<1, 1>>, 3)
    @@ B :> MCObjectOf("FACT", t2, <<>>, System, "R2", 4, "ORDERS", <<2, 2>>, 5)
    @@ C :> MCObjectOf("FACT", t3, <<>>, System, "R2", 5, "STOCK", <<2, 2>>, 1)
    @@ G :> MCObjectOf("FINDING", "NONE", <<A0, A>>, System, "R1", 6, "REVENUE", <<>>, 0)
    @@ H :> MCObjectOf("SIGNAL", "NONE", <<>>, "HUMAN_FD_JUDGEMENT", "R2", 7, "NOTE", <<>>, 0)
MCAsk(source, target, relationship, rationale, series, runs) ==
    [source |-> source, target |-> target, relationship |-> relationship, rationale |-> rationale,
     series |-> series, runs |-> runs]
MCAsked ==
    {MCAsk(A, B, "SUPPORTS", "first", <<>>, <<"R2", "R2">>), MCAsk(A, B, "SUPPORTS", "second", <<>>, <<"R2", "R2">>),
     MCAsk(A, B, "CO_MOVES_WITH", "first", <<<<A0, A>>, <<B0, B>>>>, <<"R2", "R2">>),
     MCAsk(B, A, "CO_MOVES_WITH", "first", <<<<B0, B>>, <<A0, A>>>>, <<"R2", "R2">>),
     MCAsk(G, B0, "QUANTIFIES", "first", <<>>, <<"R1", "R1">>),
     MCAsk(A0, C, "TEMPORALLY_PRECEDES", "first", <<>>, <<"R1", "R2">>),
     MCAsk(H, B, "CONTRADICTS", "first", <<>>, <<"R2", "R2">>)}
(* Callers speak of one relationship at a time, and the rows change while  *)
(* one caller speaks; another component relates the ends they speak of.    *)
Busy == {c \in Recorders : recorders[c].at # "IDLE"}
Foreign == {l \in evidenceLinks : l.made = "FOUNDATION"}
Relating == {l.relationship : l \in evidenceLinks \ Foreign}
            \cup {LET call == recorders[c] IN IF call.at = "READ" THEN call.ask.relationship
                  ELSE call.row.link.relationship : c \in Busy}
Upset == {r \in Origins : origins[r] # "SOUND"} \cup {o \in Objects : standing[o].revision > 1}
Alone == Len(graphEvents) <= 1 /\ Cardinality(Busy) <= 1 /\ Foreign = {}
GraphExplored ==
    /\ \A r \in Origins \ {t1, x1} : origins[r] = "SOUND"
    /\ \A o \in Objects \ {A, G} : standing[o].revision = 1
    /\ Cardinality(Upset) <= 1
    /\ Cardinality(Relating) <= 1 /\ Cardinality(Foreign) <= 1
    /\ Foreign = {} \/ Relating \subseteq {"SUPPORTS"}
    /\ \A l \in Foreign :
        l.relationship = "SUPPORTS" \/ (l.relationship = "CONTRADICTS" /\ Cardinality(Busy) <= 1)
    /\ Upset = {} \/ (Alone /\ Relating \subseteq {"SUPPORTS", "QUANTIFIES"})
    /\ (\E r \in graphRecords, k \in {1, 2} : ~r.ends[k].ancestry.complete) => Alone
RecorderSymmetry == Permutations(Recorders)

VARIABLE part   \* the one that is explored

Explored == CASE part = "RECEIVABLES" -> ReceivablesExplored [] part = "MONTHLY" -> MonthlyExplored
              [] part = "CONTEXTS" -> ContextsExplored [] part = "BRIDGES" -> BridgesExplored
              [] part = "GRAPH" -> GraphExplored

kindVars == <<part, evidenceVars, monthVars, measurementVars, bridgeVars, graphVars>>

KindsInit ==
    /\ part \in {"RECEIVABLES", "MONTHLY", "CONTEXTS", "BRIDGES", "GRAPH"}
    /\ EvidenceInit /\ MonthInit /\ MeasurementInit /\ BridgeInit /\ GraphInit

KindsNext ==
    /\ UNCHANGED part
    /\ \/ part = "RECEIVABLES" /\ UNCHANGED <<monthVars, measurementVars, bridgeVars, graphVars>> /\ EvidenceNext
       \/ part = "MONTHLY" /\ UNCHANGED <<evidenceVars, measurementVars, bridgeVars, graphVars>> /\ MonthNext
       \/ part = "CONTEXTS" /\ UNCHANGED <<evidenceVars, monthVars, bridgeVars, graphVars>> /\ MeasurementNext
       \/ part = "BRIDGES" /\ UNCHANGED <<evidenceVars, monthVars, measurementVars, graphVars>> /\ BridgeNext
       \/ part = "GRAPH" /\ UNCHANGED <<evidenceVars, monthVars, measurementVars, bridgeVars>> /\ GraphNext
    /\ Explored'   \* no step leaves what is explored

KindsSpec == KindsInit /\ [][KindsNext]_kindVars
================================================================================
