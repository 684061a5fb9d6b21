---------------------------- MODULE MonthlyEvidence ----------------------------
(***************************************************************************)
(* The figures of one calendar month that registered accounting documents  *)
(* are held to show: revenue, contribution 0, the proof that they are of   *)
(* the same sales, and the margin (reasoning/production_evidence:          *)
(* semantics, monthly, component, margin, service).                        *)
(*                                                                         *)
(* A package is a record export with its control, manifest, mapping and    *)
(* chart; its facts stand for the comparisons of their contents.  A call   *)
(* derives its answer from the documents as the authority resolver judges  *)
(* them now, and appends a revision if the answer is new; one that raises  *)
(* leaves nothing.  Reading a row as current derives it again.             *)
(***************************************************************************)
EXTENDS Integers, Sequences, FiniteSets, SequencesExt

CONSTANTS
    Months,         \* packages of documents
    Month,          \* [Months -> MonthFacts]
    Mappings,
    MappingFrom,    \* [Mappings -> the mapping it is the next revision of, or "NONE"]
    Proofs,         \* documents that relate a revenue and a contribution package
    Proof,          \* [Proofs -> ProofFacts]
    MaxDoubted      \* bound: parts without authority at a time

Family == {"REVENUE", "CONTRIBUTION_0"}
Lacking == {"KIND", "MEMBERS", "BOUNDARY", "EXCLUDED", "MISMATCH", "PERIOD", "DEFINITION", "CONTRADICTED",
            "UNOBSERVED", "REFERENCE"}
Change == {"ORIGINAL", "CORRECTION", "RESTATEMENT", "SUPERSESSION", "UNKNOWN"}
Part == {"SOURCE", "CONTROL", "MAPPING", "CHART"}
Evidenced == (Months \X Part) \cup (Proofs \X {"PROOF"})

MonthFacts ==
    [family : Family, lacks : SUBSET Lacking, kind : Change, from : Months \cup {"NONE"}, mapping : Mappings,
     revenue : Int, cost : Int]
ProofFacts ==
    [revenue : Months, contribution : Months, exact : BOOLEAN, revision : Nat \ {0}, kind : Change,
     from : Proofs \cup {"NONE"}]

ASSUME MonthAssumption ==
    /\ Month \in [Months -> MonthFacts] /\ Proof \in [Proofs -> ProofFacts] /\ "NONE" \notin Months
    /\ MappingFrom \in [Mappings -> Mappings \cup {"NONE"}]
    /\ \A d \in Proofs : Month[Proof[d].revenue].family = "REVENUE"
                         /\ Month[Proof[d].contribution].family = "CONTRIBUTION_0"

VARIABLES
    imported,       \* packages and proofs with a completed ingestion
    doubted,        \* parts the authority resolver does not vouch for
    monthly,        \* [family -> its owners, by revision]
    bindings,       \* component bindings, by revision
    margins         \* margin owners, by revision

monthVars == <<imported, doubted, monthly, bindings, margins>>

MonthlyRow == [package : Months, vouched : SUBSET Part, roots : SUBSET Months]
Reason == {"AUTHORITY", "RELATION", "AMOUNTS", "REVISION", "ROOT"}
BindingRow == [proof : Proofs, vouched : BOOLEAN, reasons : SUBSET Reason]
MarginRow == [binding : Nat \ {0}, reasons : SUBSET (Reason \cup {"NON_TERMINATING", "POSITIVE_REVENUE"})]

(* The tables keep the shape of their contracts.                           *)
MonthTypeOK ==
    /\ imported \subseteq Months \cup Proofs /\ doubted \subseteq Evidenced
    /\ DOMAIN monthly = Family /\ \A f \in Family : monthly[f] \in Seq(MonthlyRow)
    /\ bindings \in Seq(BindingRow) /\ margins \in Seq(MarginRow)

MonthInit ==
    /\ imported = {} /\ doubted = {}
    /\ monthly = [f \in Family |-> <<>>] /\ bindings = <<>> /\ margins = <<>>

----------------------------------------------------------------------------
ImportMonth(p) ==
    /\ imported' = imported \cup {p}
    /\ UNCHANGED <<doubted, monthly, bindings, margins>>

(* A proof can name two owners only once they have an identity.            *)
Owned(p) == \E row \in Range(monthly[Month[p].family]) : row.package = p
ImportProof(d) ==
    /\ Owned(Proof[d].revenue) /\ Owned(Proof[d].contribution)
    /\ imported' = imported \cup {d}
    /\ UNCHANGED <<doubted, monthly, bindings, margins>>

ChangeVouching(x) ==
    /\ doubted' = IF x \in doubted THEN doubted \ {x} ELSE doubted \cup {x}
    /\ Cardinality(doubted') <= MaxDoubted
    /\ UNCHANGED <<imported, monthly, bindings, margins>>

Vouched(p) == {part \in Part : <<p, part>> \notin doubted}

----------------------------------------------------------------------------
(* Original exports of the month, with a settled predecessor or not.       *)
Roots(family) == {p \in Months \cap imported : Month[p].family = family /\ Month[p].from = "NONE"}

RevisionVerified(p, before) ==
    LET x == Month[p] IN
    /\ "REFERENCE" \notin x.lacks /\ x.kind # "UNKNOWN"
    /\ x.kind = "ORIGINAL" => Cardinality(Roots(x.family)) = 1
    /\ IF before = <<>> THEN x.kind = "ORIGINAL" /\ x.from = "NONE"
       ELSE x.kind # "ORIGINAL" /\ x.from = Last(before).package

(* What the documents of a package fail to verify, as a revision after the *)
(* owners `before` it.                                                     *)
Unverified(p, before) ==
    LET lacks == Month[p].lacks
        trusted == "SOURCE" \in Vouched(p)
        member == trusted /\ lacks \cap {"KIND", "MEMBERS", "BOUNDARY"} = {}
    IN  {d \in {"SOURCE"} : ~trusted \/ "BOUNDARY" \in lacks}
        \cup {d \in {"POPULATION"} : ~member}
        \cup {d \in {"COVERAGE"} : ~(/\ member /\ "CONTROL" \in Vouched(p)
                                     /\ lacks \cap {"EXCLUDED", "MISMATCH", "UNOBSERVED"} = {})}
        \cup {d \in {"PERIOD"} : ~trusted \/ "PERIOD" \in lacks}
        \cup {d \in {"DEFINITION"} : ~(/\ {"SOURCE", "MAPPING", "CHART"} \subseteq Vouched(p)
                                       /\ lacks \cap {"DEFINITION", "CONTRADICTED"} = {})}
        \cup {d \in {"REVISION"} : ~(trusted /\ RevisionVerified(p, before))}

MonthlyBasis(p) == [package |-> p, vouched |-> Vouched(p), roots |-> Roots(Month[p].family)]

MappingAllowed(p, before) ==
    IF before = <<>> THEN TRUE
    ELSE LET old == Month[Last(before).package].mapping
         IN  Month[p].mapping = old \/ MappingFrom[Month[p].mapping] = old

(* The owner a package gives after the owners `before` it: the last of     *)
(* these again, when nothing it was derived from has changed.              *)
Qualifies(p, before) ==
    \/ IsSuffix(<<MonthlyBasis(p)>>, before)
    \/ MappingAllowed(p, before) /\ Unverified(p, before) = {}

(* A package is asked for its own family only: another is refused.         *)
QualifyMonthly(p) ==
    LET f == Month[p].family IN
    /\ Qualifies(p, monthly[f])
    /\ ~IsSuffix(<<MonthlyBasis(p)>>, monthly[f])
    /\ monthly' = [monthly EXCEPT ![f] = Append(@, MonthlyBasis(p))]
    /\ UNCHANGED <<imported, doubted, bindings, margins>>

(* The owner of a package is the latest of its series, and derived again.  *)
MonthlyCurrent(p) ==
    LET rows == monthly[Month[p].family] IN
    /\ rows # <<>> /\ Last(rows) = MonthlyBasis(p)
    /\ ~IsSuffix(<<MonthlyBasis(p)>>, Front(rows)) /\ Qualifies(p, Front(rows))

----------------------------------------------------------------------------
(* The proof's place after the binding `before` it, and among the proofs.  *)
ProofRevised(d, before) ==
    IF before = <<>> THEN Proof[d].from = "NONE" /\ Proof[d].kind = "ORIGINAL"
    ELSE LET old == Last(before).proof
         IN  /\ Proof[d].from = old /\ Proof[d].revision = Proof[old].revision + 1
             /\ Proof[d].kind \in {"RESTATEMENT", "CORRECTION"}

BindingReasons(d, before) ==
    {r \in {"AUTHORITY"} : <<d, "PROOF">> \in doubted}
    \cup {r \in {"RELATION"} : ~Proof[d].exact}
    \cup {r \in {"AMOUNTS"} : Month[Proof[d].revenue].revenue # Month[Proof[d].contribution].revenue}
    \cup {r \in {"REVISION"} : ~ProofRevised(d, before)}
    \cup {r \in {"ROOT"} : Cardinality({e \in Proofs \cap imported : Proof[e].from = "NONE"}) # 1}

Components(d) == {Proof[d].revenue, Proof[d].contribution}
ComponentsCurrent(d) == \A p \in Components(d) : MonthlyCurrent(p)

BindingRowOf(d, before) ==
    [proof |-> d, vouched |-> <<d, "PROOF">> \notin doubted, reasons |-> BindingReasons(d, before)]

(* The same proof with the same authority is a repetition, and answered    *)
(* with the binding there is.  A refusal is a revision as well.            *)
Bind(d) ==
    /\ d \in imported /\ ComponentsCurrent(d)
    /\ bindings # <<>> => [proof |-> Last(bindings).proof, vouched |-> Last(bindings).vouched]
                          # [proof |-> d, vouched |-> <<d, "PROOF">> \notin doubted]
    /\ bindings' = Append(bindings, BindingRowOf(d, bindings))
    /\ UNCHANGED <<imported, doubted, monthly, margins>>

BindingCurrent(k) ==
    /\ k = Len(bindings)
    /\ ComponentsCurrent(bindings[k].proof)
    /\ bindings[k] = BindingRowOf(bindings[k].proof, Front(bindings))

----------------------------------------------------------------------------
(* A percentage is owned only if it is exact in decimals.                  *)
Exact(part, whole) == \E k \in 0 .. whole : (100 * part * 10 ^ k) % whole = 0

Percentage(d) ==
    LET p == Month[Proof[d].contribution]  whole == Month[Proof[d].revenue].revenue IN
    IF whole <= 0 THEN {"POSITIVE_REVENUE"}
    ELSE IF Exact(p.revenue - p.cost, whole) THEN {} ELSE {"NON_TERMINATING"}

MarginReasons(k) ==
    IF bindings[k].reasons # {} THEN bindings[k].reasons ELSE Percentage(bindings[k].proof)

QualifyMargin(k) ==
    /\ BindingCurrent(k)
    /\ margins # <<>> => Last(margins).binding # k
    /\ margins' = Append(margins, [binding |-> k, reasons |-> MarginReasons(k)])
    /\ UNCHANGED <<imported, doubted, monthly, bindings>>

\* Mutant: the binding and its owners are taken as they were recorded.
MarginUnderived(i) == i = Len(margins) /\ margins[i].binding = Len(bindings)

MarginCurrent(i) ==
    /\ i = Len(margins) /\ BindingCurrent(margins[i].binding)
    /\ margins[i].reasons = MarginReasons(margins[i].binding)

MonthNext ==
    \/ \E p \in Months \ imported : ImportMonth(p)
    \/ \E x \in Evidenced : ChangeVouching(x)
    \/ \E p \in Months \cap imported : QualifyMonthly(p)
    \/ \E d \in Proofs \ imported : ImportProof(d)
    \/ \E d \in Proofs : Bind(d)
    \/ \E k \in DOMAIN bindings : QualifyMargin(k)

MonthSpec == MonthInit /\ [][MonthNext]_monthVars

----------------------------------------------------------------------------
(* A month's figure is revised only by documents that name the ones they   *)
(* replace: no package is owned twice, and the first is the only original  *)
(* there was (semantics.py:324-343).                                       *)
OwnersAreRevised ==
    \A f \in Family : \A i, j \in DOMAIN monthly[f] :
        LET x == monthly[f][i]  y == monthly[f][j] IN
        /\ Month[x.package].lacks = {} /\ x.vouched = Part
        /\ i < j => x.package # y.package
        /\ i = 1 => x.roots = {x.package}
        /\ j = i + 1 => Month[y.package].from = x.package

(* A margin that reads as current and qualified relates the latest two     *)
(* figures, of one positive revenue, by an exact proof and documents whose *)
(* every part is vouched for now (margin.py:123, :231).                    *)
MarginsAreWarranted ==
    \A i \in DOMAIN margins :
        MarginCurrent(i) /\ margins[i].reasons = {} =>
            LET d == bindings[margins[i].binding].proof IN
            /\ \A p \in Components(d) :
                /\ Last(monthly[Month[p].family]).package = p
                /\ \A part \in Part : <<p, part>> \notin doubted
                /\ Month[p].kind = "ORIGINAL" => Roots(Month[p].family) = {p}
            /\ <<d, "PROOF">> \notin doubted /\ Proof[d].exact
            /\ Month[Proof[d].revenue].revenue = Month[Proof[d].contribution].revenue
            /\ Month[Proof[d].revenue].revenue > 0

MonthIsWarranted == OwnersAreRevised /\ MarginsAreWarranted
================================================================================
