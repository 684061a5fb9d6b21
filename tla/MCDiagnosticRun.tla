----------------------------- MODULE MCDiagnosticRun -----------------------------
(* Clients of both kinds: transaction clients whose sales are sound, short *)
(* or unmapped, whose accounts balance or not and whose sources agree or   *)
(* not; workbook clients with controls that pass or fail and every set of  *)
(* annual summaries.                                                       *)
EXTENDS DiagnosticRun, TLC

MCLevel1Rules ==
    "WC-01" :> [needs |-> {"D01", "D02", "D03"}, partial |-> {"D03"}]
    @@ "WC-05" :> [needs |-> {"D06"}, partial |-> {}]

MCRich ==
    "CUS-01" :> {<<"TOP_CUSTOMER_CONCENTRATION", "HIGH", "c1">>, <<"TOP5_CONCENTRATION", "MEDIUM", "BUSINESS">>}
    @@ "GM-07" :> {<<"NEGATIVE_TRANSACTION_MARGIN", "LOW", "p1">>}
    @@ "PRI-02" :> {<<"COMPARABLE_PRICE_DISPERSION", "MEDIUM", "p1">>}
    @@ "SUP-03" :> {<<"SUPPLIER_DEPENDENCY", "MEDIUM", "s1">>}
    @@ "SUP-05" :> {<<"DUPLICATE_LOOKING_SPEND", "MEDIUM", "s1">>}
    @@ "WC-05" :> {<<"AVAILABLE_CASH_POSITION", "INFORMATIONAL", "BUSINESS">>}
    @@ "WC-06" :> {<<"WORKING_CAPITAL_RELEASE_CANDIDATE", "MEDIUM", "BS_INVENTORY">>}
    @@ "RISK-03" :> {<<"FINANCIAL_EXPOSURE", "HIGH", "LEASE">>}
MCPoor ==
    "REV-01" :> {<<"COMPARABLE_REVENUE_CHANGE", "LOW", "BUSINESS">>}
    @@ "WC-02" :> {<<"CUSTOMER_OVERDUE_AR", "MEDIUM", "c1">>}

MCLedgerClients ==
    {[ledger |-> TRUE, months |-> m, quality |-> q, arithmetic |-> a, mapped |-> mapped, accounts |-> acc,
      abnormal |-> abnormal \cap acc, disagree |-> d, workforce |-> a, controls |-> {}, gives |-> g,
      summaries |-> [t \in {} |-> {}]] :
        m \in {6, 24}, q \in {"RELIABLE", "MATERIALLY_CONSTRAINED"}, a \in BOOLEAN,
        mapped \in {{"CUSTOMER"}, {"CUSTOMER", "PRODUCT"}},
        acc \in {{"D06"}, {"D01", "D02", "D03", "D04", "D05", "D06"}}, abnormal \in {{}, {"D03", "D06"}},
        d \in {{}, {"SALES_TO_PNL_REVENUE", "BANK_TO_BS_CASH"}}, g \in {MCRich, MCPoor}}

MCSummaries ==
    "CUS-01" :> {<<"TOP_CUSTOMER_CONCENTRATION", "HIGH", "c1">>, <<"CUSTOMER_HHI", "INFORMATIONAL", "BUSINESS">>}
    @@ "CUS-02" :> {<<"CUSTOMER_PROFITABILITY", "HIGH", "c1">>}
    @@ "CUS-07" :> {<<"CUSTOMER_PARETO_DISTRIBUTION", "INFORMATIONAL", "BUSINESS">>}
    @@ "SUP-01" :> {<<"SUPPLIER_SPEND", "HIGH", "s1">>}
    @@ "SUP-03" :> {<<"SUPPLIER_DEPENDENCY", "HIGH", "s1">>}
MCKept(tests) == [t \in tests |-> MCSummaries[t]]
MCWorkbookClients ==
    {[ledger |-> FALSE, months |-> 0, quality |-> "RELIABLE", arithmetic |-> TRUE, mapped |-> {}, accounts |-> {},
      abnormal |-> {}, disagree |-> {}, workforce |-> w, controls |-> c, gives |-> g,
      summaries |-> MCKept(kept) @@ capacity] :
        w \in BOOLEAN, c \in {{}, {<<"UWB_AR", "RECONCILED">>, <<"UWB_AP", "FAILED">>}}, g \in {MCRich, MCPoor},
        kept \in {{}, {"CUS-01", "CUS-07"}, {"CUS-01", "CUS-02", "CUS-07", "SUP-01", "SUP-03"}},
        capacity \in {[t \in {} |-> {}], "PEO-04" :> {}, "PEO-04" :> {<<"WORK_CENTRE_UTILISATION", "HIGH", "w1">>}}}

MCClients == MCLedgerClients \cup MCWorkbookClients
================================================================================
