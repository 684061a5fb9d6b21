------------------------------ MODULE DiagnosticRun ------------------------------
(* One diagnostic run of one client: the trust layer (trust/engine.py)     *)
(* states what the client's datasets can bear, the 56 tests of the         *)
(* registry (diagnostic/engine.py) are answered in one fixed order, each   *)
(* committed before the next is asked, and a workbook run ends by handing  *)
(* annual summaries over to six of them (intake/bridge.py).  Some tests    *)
(* read the client's data; the synthesising ones read the signals earlier  *)
(* tests of the run left, so they say what the run knew when they ran.     *)
(*                                                                         *)
(* Abstracted: what the arithmetic over a client's rows comes to.  A       *)
(* client is a record of the facts the rules tell apart, and `gives` names *)
(* the signals each test would draw from the rows if it were not refused.  *)
EXTENDS Integers, Sequences, FiniteSets, Functions

CONSTANTS
    Clients,      \* the clients a run may be about (see ClientFacts)
    Level1Rules   \* test -> [needs, partial]: domains assess_level1_eligibility is asked about

VARIABLES
    client,       \* the client's data
    stage,        \* what the run's caller does next
    integrity,    \* domain -> its financial_integrity state
    controls,     \* <<reconciliation, status>> rows of both reconciliation tables
    eligibility,  \* test -> its test_eligibility state
    answers,      \* the run's test_execution rows, by the place they were asked in, with their signals
    place         \* the place of the next one: <<family, position>>

runVars == <<client, stage, integrity, controls, eligibility, answers, place>>

(* A family: its tests in the order its function answers them, those it    *)
(* refuses to compute when UNAVAILABLE (the others only record that they   *)
(* were refused) and those that complete without a signal.  What a test's  *)
(* arithmetic draws from the rows is `gives`.                              *)
Family(tests, refused, silent) == [tests |-> tests, refused |-> refused, silent |-> silent]
Refused(tests, silent) == Family(tests, Range(tests), silent)

Revenue == Refused(<<"REV-01", "REV-02", "REV-03">>, {})
ExtendedRevenue == Refused(<<"REV-04", "REV-05", "REV-06">>, {})
Margin == Refused(<<"GM-01", "GM-02", "GM-03", "GM-04", "GM-05", "GM-06", "GM-07">>,
                  {"GM-03", "GM-04", "GM-05", "GM-06", "GM-07"})
Customer == Refused(<<"CUS-01", "CUS-02", "CUS-03", "CUS-04", "CUS-05", "CUS-06", "CUS-07">>, {"CUS-02", "CUS-04"})
Product == Refused(<<"PROD-01", "PROD-02", "PROD-03", "PROD-04", "PROD-05">>,
                   {"PROD-01", "PROD-02", "PROD-03", "PROD-05"})
Pricing == Refused(<<"PRI-01", "PRI-02", "PRI-03", "PRI-04", "PRI-05">>, {"PRI-01", "PRI-02", "PRI-03"})
Workforce == Refused(<<"PEO-01", "PEO-02", "PEO-03", "PEO-04", "PEO-05">>, {})
Supply == Family(<<"SUP-01", "SUP-02", "SUP-03", "SUP-04", "SUP-05", "SUP-06">>, {"SUP-01"}, {})
Capital == Family(<<"WC-01", "WC-02", "WC-03", "WC-04", "WC-05", "WC-06", "WC-07">>, {}, {})
Forecasting == Family(<<"FCST-01", "FCST-02", "FCST-03", "FCST-04">>, {}, {})
Risk == Family(<<"RISK-01", "RISK-02", "RISK-03", "RISK-04">>, {}, {"RISK-03"})

SalesFamilies == {Revenue, ExtendedRevenue, Margin, Customer, Product, Pricing}
SalesTests == UNION {Range(f.tests) : f \in SalesFamilies}

(* A plausible slip: the risk synthesis asked before the suppliers are.    *)
RiskBeforeSuppliers ==
    <<Revenue, ExtendedRevenue, Margin, Customer, Product, Pricing, Workforce, Risk, Supply, Capital, Forecasting>>

(* run_diagnostic_engine: the families in turn.                            *)
Families ==
    <<Revenue, ExtendedRevenue, Margin, Customer, Product, Pricing, Workforce, Supply, Capital, Forecasting, Risk>>

Places == UNION {{<<k, i>> : i \in DOMAIN Families[k].tests} : k \in DOMAIN Families}
TestAt(p) == Families[p[1]].tests[p[2]]
Tests == {TestAt(p) : p \in Places}
NextPlace(p) == IF p[2] < Len(Families[p[1]].tests) THEN <<p[1], p[2] + 1>> ELSE <<p[1] + 1, 1>>
AllAsked == <<Len(Families) + 1, 1>>

Domains == {"D01", "D02", "D03", "D04", "D05", "D06", "D07"}
Weak == {"USABLE_WITH_LIMITATION", "MATERIALLY_CONSTRAINED"}
Integrities == {"NONE", "RELIABLE"} \cup Weak
Eligibilities == {"NONE", "FULL", "PARTIAL-A", "PARTIAL-B", "PARTIAL-C", "UNAVAILABLE"}
Materialities == {"INFORMATIONAL", "LOW", "MEDIUM", "HIGH"}
Material == {"MEDIUM", "HIGH"}

(* What the cross-source checks compare, and the domains a failure hits.   *)
CrossEffects ==
    [SALES_TO_PNL_REVENUE |-> {"D01", "D07"}, AR_LEDGER_TO_BS |-> {"D02", "D04"},
     AP_LEDGER_TO_BS |-> {"D02", "D05"}, BANK_TO_BS_CASH |-> {"D02", "D06"}]

(* The signals that the exception and the exposure synthesis look for.     *)
Forensic == {"DUPLICATE_LOOKING_SPEND", "NEGATIVE_TRANSACTION_MARGIN", "ABNORMAL_TRANSACTION_MARGIN"}
Dependency == {"TOP_CUSTOMER_CONCENTRATION", "TOP5_CUSTOMER_CONCENTRATION",
               "SUPPLIER_CONCENTRATION", "SUPPLIER_DEPENDENCY"}

(* ledger: sales transactions are held, over `months`, of some `quality`,  *)
(* its `arithmetic` reconciling, its revenue `mapped` to dimensions;       *)
(* accounts: the accounting domains held; abnormal: those whose own check  *)
(* fails; disagree: the pairs of sources that disagree; workforce: a       *)
(* snapshot is held; controls: a workbook's own reconciliations; gives,    *)
(* summaries: what tests and annual summaries yield, as <<type,            *)
(* materiality, entity>>.  From rows of their own, RISK-02 and RISK-03      *)
(* draw recorded exceptions and exposures only.                            *)
Yields(given) ==
    DOMAIN given \subseteq Tests /\ \A test \in DOMAIN given : \A g \in given[test] : g[2] \in Materialities
ClientFacts(c) ==
    /\ c.ledger \in BOOLEAN /\ c.arithmetic \in BOOLEAN /\ c.workforce \in BOOLEAN
    /\ c.months \in Nat
    /\ c.quality \in {"RELIABLE"} \cup Weak
    /\ c.mapped \subseteq {"CUSTOMER", "PRODUCT"}
    /\ c.accounts \subseteq Domains \ {"D07"} /\ c.abnormal \subseteq c.accounts
    /\ c.disagree \subseteq DOMAIN CrossEffects
    /\ \A k \in c.controls : k[2] \in {"RECONCILED", "FAILED"}
    /\ Yields(c.gives) /\ Yields(c.summaries)
    /\ \A test \in DOMAIN c.gives \cap {"RISK-02", "RISK-03"} :
          \A g \in c.gives[test] : g[1] \notin Forensic \cup Dependency
ASSUME ClientAssumption == \A c \in Clients : ClientFacts(c)

(* Nobody assesses the eligibility of a forecasting test.                  *)
ASSUME Level1Assumption == DOMAIN Level1Rules \subseteq Tests \ Range(Forecasting.tests)

--------------------------------------------------------------------------------
(* Signals.  `from` names the signals of the run a synthesised one cites.  *)

Signal(type, mat, entity, from) == [type |-> type, mat |-> mat, entity |-> entity, from |-> from]
Name(test, s) == <<test, s.type, s.entity>>
Given(test) ==
    {Signal(g[1], g[2], g[3], {}) : g \in IF test \in DOMAIN client.gives THEN client.gives[test] ELSE {}}

(* The signals the run's answers to these tests hold, each with its test.  *)
Held(tests) ==
    UNION {{<<answers[p].test, s>> : s \in answers[p].signals} : p \in {q \in DOMAIN answers : answers[q].test \in tests}}
Typed(found, types) == {x \in found : x[2].type \in types}
Restated(type, x) == Signal(type, x[2].mat, x[2].entity, {Name(x[1], x[2])})

CashCandidate == {"WORKING_CAPITAL_RELEASE_CANDIDATE", "CUSTOMER_OVERDUE_AR"}

(* The signals a synthesising test reads.                                  *)
ReadBy(test) ==
    CASE test = "PRI-05" -> Held({"PRI-02", "PRI-03"})
      [] test = "SUP-06" -> Held({"SUP-02", "SUP-04", "SUP-05"})
      [] test = "WC-07" -> Typed(Held({"WC-02", "WC-03", "WC-04", "WC-06"}), CashCandidate)
      [] test = "RISK-02" -> Typed(Held(Tests), Forensic)
      [] test = "RISK-03" -> Typed(Held(Tests), Dependency)
      [] test = "RISK-04" -> {x \in Held({"RISK-01", "RISK-02", "RISK-03"}) : x[2].mat \in Material}
      [] OTHER -> {}

(* RISK-01: every domain that is not RELIABLE, and every reconciliation    *)
(* whose status is none of PASS, RELIABLE and NONE: that is, each one.     *)
IntegritySignals ==
    {Signal("FINANCIAL_INTEGRITY_WEAKNESS", IF integrity[d] = "MATERIALLY_CONSTRAINED" THEN "HIGH" ELSE "MEDIUM", d, {}) :
        d \in {e \in Domains : integrity[e] \in Weak}}
    \cup {Signal("RECONCILIATION_EXCEPTION", "MEDIUM", c[1], {}) : c \in controls}

Synthesised(test) ==
    CASE test = "PRI-05" ->
           IF ReadBy(test) = {} THEN {}
           ELSE {Signal("PRICING_OPPORTUNITY_CANDIDATE_SET", "INFORMATIONAL", "BUSINESS",
                        {Name(x[1], x[2]) : x \in ReadBy(test)})}
      [] test = "SUP-06" -> {Restated("SUPPLIER_OVERHEAD_OPPORTUNITY_CANDIDATE", x) : x \in ReadBy(test)}
      [] test = "WC-07" -> {Restated("CASH_OPTIMISATION_CANDIDATE", x) : x \in ReadBy(test)}
      [] test = "RISK-01" -> IntegritySignals
      [] test = "RISK-02" -> Given(test) \cup {Restated("FORENSIC_EXCEPTION_SIGNAL", x) : x \in ReadBy(test)}
      [] test = "RISK-03" -> Given(test) \cup {Restated("DEPENDENCY_EXPOSURE_SIGNAL", x) : x \in ReadBy(test)}
      [] test = "RISK-04" -> {Restated("GOVERNANCE_ACTION_CANDIDATE", x) : x \in ReadBy(test)}
      [] OTHER -> Given(test)

Refusing == UNION {f.refused : f \in Range(Families)}
CompletesSilent == UNION {f.silent : f \in Range(Families)}

Found(present) == IF present THEN "FULL" ELSE "UNAVAILABLE"

(* What a test takes its eligibility to be: sales tests what the trust     *)
(* layer stored, some others that if it is there, the rest their evidence. *)
EligibilityOf(test) ==
    LET stored == eligibility[test]
        signals == Synthesised(test)
    IN  CASE test \in SalesTests -> IF client.ledger /\ stored # "NONE" THEN stored ELSE "UNAVAILABLE"
          [] test \in Range(Workforce.tests) -> IF stored # "NONE" THEN stored ELSE Found(client.workforce)
          [] test \in Range(Supply.tests) -> IF stored # "NONE" THEN stored ELSE "FULL"
          [] test \in Range(Capital.tests) -> IF stored # "NONE" THEN stored ELSE Found(signals # {})
          [] test \in Range(Forecasting.tests) -> Found(signals # {})
          [] test = "RISK-01" -> Found(controls # {} \/ \E d \in Domains : integrity[d] # "NONE")
          [] test \in {"RISK-02", "RISK-04"} -> IF signals # {} THEN "FULL" ELSE "PARTIAL-A"
          [] test = "RISK-03" -> IF Given(test) # {} THEN "FULL"
                                 ELSE IF ReadBy(test) # {} THEN "PARTIAL-A" ELSE "UNAVAILABLE"

Answered(test, e, signals, completed) ==
    [test |-> test, eligibility |-> e, status |-> IF completed THEN "COMPLETED" ELSE "NOT_RUN", signals |-> signals]

Answer(test) ==
    LET e == EligibilityOf(test)
        signals == IF test \in Refusing /\ e = "UNAVAILABLE" THEN {} ELSE Synthesised(test)
    IN  Answered(test, e, signals,
                 \/ signals # {} \/ test \in {"RISK-02", "RISK-04"}
                 \/ test = "RISK-01" /\ e = "FULL"
                 \/ test \in CompletesSilent /\ e # "UNAVAILABLE")

--------------------------------------------------------------------------------
(* The trust layer, in the order the repository's callers use it.          *)

SalesIntegrity ==
    IF ~client.arithmetic THEN "MATERIALLY_CONSTRAINED"
    ELSE IF client.quality = "RELIABLE" THEN "RELIABLE" ELSE "USABLE_WITH_LIMITATION"

YearOfHistory == {"GM-07", "CUS-01", "CUS-02", "CUS-03", "CUS-06", "CUS-07", "PROD-01", "PROD-04", "PROD-05",
              "PRI-02", "PRI-03", "PRI-05"}
NeedsCustomers == {"REV-03", "GM-03", "PROD-05", "PRI-01", "PRI-02", "PRI-05"}
                     \cup {"CUS-01", "CUS-02", "CUS-03", "CUS-04", "CUS-05", "CUS-06", "CUS-07"}
NeedsProducts == {"REV-04", "GM-04", "GM-05", "GM-06", "PROD-01", "PROD-02", "PROD-03", "PROD-04", "PROD-05",
                 "PRI-01", "PRI-02", "PRI-03", "PRI-04", "PRI-05"}

(* assess_test_eligibility: each later rule overwrites the earlier ones.   *)
SalesEligibility(test) ==
    IF \/ test \in NeedsCustomers /\ "CUSTOMER" \notin client.mapped
       \/ test \in NeedsProducts /\ "PRODUCT" \notin client.mapped THEN "PARTIAL-B"
    ELSE IF SalesIntegrity = "MATERIALLY_CONSTRAINED" THEN "PARTIAL-C"
    ELSE IF client.quality = "MATERIALLY_CONSTRAINED" THEN "PARTIAL-B"
    ELSE IF client.months < (IF test \in YearOfHistory THEN 12 ELSE 24) THEN "PARTIAL-A"
    ELSE "FULL"

(* run_trust_layer.                                                        *)
AssessSales ==
    /\ stage = "SALES"
    /\ integrity' = [integrity EXCEPT !["D07"] = SalesIntegrity]
    /\ controls' = controls \cup {<<"SALES_GP_ARITHMETIC", IF client.arithmetic THEN "RECONCILED" ELSE "FAILED">>}
    /\ eligibility' = [t \in Tests |-> IF t \in SalesTests THEN SalesEligibility(t) ELSE eligibility[t]]
    /\ stage' = "ACCOUNTS"
    /\ UNCHANGED <<client, answers, place>>

(* assess_level1_accounting_trust.                                         *)
AssessAccounting ==
    /\ stage = "ACCOUNTS"
    /\ integrity' =
         [d \in Domains |->
            IF d \notin client.accounts THEN integrity[d]
            ELSE IF d \notin client.abnormal \/ d \in {"D01", "D02"} THEN "RELIABLE"
            ELSE IF d = "D03" THEN "MATERIALLY_CONSTRAINED" ELSE "USABLE_WITH_LIMITATION"]
    /\ controls' =
         controls \cup (IF "D03" \in client.accounts
                        THEN {<<"TRIAL_BALANCE_DEBITS_CREDITS", IF "D03" \in client.abnormal THEN "FAILED" ELSE "RECONCILED">>}
                        ELSE {})
    /\ stage' = "CROSS"
    /\ UNCHANGED <<client, eligibility, answers, place>>

Comparable == {k \in DOMAIN CrossEffects :
                  \A d \in CrossEffects[k] : d \in client.accounts \/ (d = "D07" /\ client.ledger)}

(* assess_cross_source_reconciliations: a failure rewrites the integrity   *)
(* of both domains, but no eligibility that was derived from it.           *)
CrossCheck ==
    /\ stage = "CROSS"
    /\ controls' = controls \cup {<<k, IF k \in client.disagree THEN "FAILED" ELSE "RECONCILED">> : k \in Comparable}
    /\ LET hit == UNION {CrossEffects[k] : k \in Comparable \cap client.disagree}
       IN  integrity' = [d \in Domains |-> IF d \in hit /\ integrity[d] # "NONE"
                                           THEN "MATERIALLY_CONSTRAINED" ELSE integrity[d]]
    /\ stage' = "TESTS"
    /\ UNCHANGED <<client, eligibility, answers, place>>

(* assess_level1_eligibility of one test, once the domains are assessed.   *)
AssessLevel1(test) ==
    /\ stage = "CROSS" /\ eligibility[test] = "NONE"
    /\ LET needs == Level1Rules[test].needs
           missing == {d \in needs : integrity[d] = "NONE"}
       IN  eligibility' = [eligibility EXCEPT ![test] =
               IF missing # {} THEN IF missing \cap Level1Rules[test].partial # {} THEN "PARTIAL-A" ELSE "UNAVAILABLE"
               ELSE IF \E d \in needs : integrity[d] = "MATERIALLY_CONSTRAINED" THEN "PARTIAL-C"
               ELSE IF \E d \in needs : integrity[d] = "USABLE_WITH_LIMITATION" THEN "PARTIAL-B"
               ELSE "FULL"]
    /\ UNCHANGED <<client, stage, integrity, controls, answers, place>>

--------------------------------------------------------------------------------
(* The tests, one commit each, and the hand-off of annual summaries.       *)

RunTest ==
    /\ stage = "TESTS" /\ place \in Places
    /\ answers' = [p \in DOMAIN answers \cup {place} |-> IF p = place THEN Answer(TestAt(p)) ELSE answers[p]]
    /\ place' = NextPlace(place)
    /\ UNCHANGED <<client, stage, integrity, controls, eligibility>>

FinishTests ==
    /\ stage = "TESTS" /\ place = AllAsked
    /\ stage' = IF DOMAIN client.summaries = {} THEN "DONE" ELSE "CUSTOMERS"
    /\ UNCHANGED <<client, integrity, controls, eligibility, answers, place>>

HandedOver == [CUSTOMERS |-> <<"CUS-01", "CUS-02", "CUS-07">>, SUPPLIERS |-> <<"SUP-01", "SUP-03">>,
               CAPACITY |-> <<"PEO-04">>]
Following == [CUSTOMERS |-> "SUPPLIERS", SUPPLIERS |-> "CAPACITY", CAPACITY |-> "DONE"]

(* An implausible capacity schedule gives no signal, and is refused.       *)
FromSummary(test) ==
    LET signals == {Signal(g[1], g[2], g[3], {}) : g \in client.summaries[test]}
    IN  Answered(test, IF test = "PEO-04" /\ signals = {} THEN "UNAVAILABLE" ELSE "PARTIAL-A", signals, signals # {})

(* _aggregate_commercial_handoff, one kind of summary: what the tests it   *)
(* supports had answered is deleted, signals and all, and asked again.     *)
HandOff ==
    /\ stage \in DOMAIN HandedOver
    /\ LET asked == HandedOver[stage]
           given == Range(asked) \cap DOMAIN client.summaries
           kept == {p \in DOMAIN answers : answers[p].test \notin given}
           again == {<<place[1], i>> : i \in {j \in DOMAIN asked : asked[j] \in given}}
       IN  /\ answers' = [p \in kept \cup again |-> IF p \in kept THEN answers[p] ELSE FromSummary(asked[p[2]])]
           /\ eligibility' = [t \in Tests |-> IF t \in given THEN FromSummary(t).eligibility ELSE eligibility[t]]
    /\ stage' = Following[stage] /\ place' = <<place[1] + 1, 1>>
    /\ UNCHANGED <<client, integrity, controls>>

(* A run over sales transactions starts with trust; a workbook's has its   *)
(* own controls and no trust layer.                                        *)
RunInit ==
    /\ client \in Clients
    /\ stage = IF client.ledger THEN "SALES" ELSE "TESTS"
    /\ integrity = [d \in Domains |-> "NONE"]
    /\ controls = IF client.ledger THEN {} ELSE client.controls
    /\ eligibility = [t \in Tests |-> "NONE"]
    /\ answers = [p \in {} |-> {}] /\ place = <<1, 1>>

RunNext ==
    \/ AssessSales \/ AssessAccounting \/ CrossCheck
    \/ \E test \in DOMAIN Level1Rules : AssessLevel1(test)
    \/ RunTest \/ FinishTests \/ HandOff

RunSpec == RunInit /\ [][RunNext]_runVars

RunTypeOK ==
    /\ client \in Clients
    /\ stage \in {"SALES", "ACCOUNTS", "CROSS", "TESTS", "DONE"} \cup DOMAIN HandedOver
    /\ integrity \in [Domains -> Integrities]
    /\ \A c \in controls : c[2] \in {"RECONCILED", "FAILED"}
    /\ eligibility \in [Tests -> Eligibilities]
    /\ place \in Nat \X Nat /\ DOMAIN answers \subseteq Nat \X Nat
    /\ \A p \in DOMAIN answers :
          /\ answers[p].test \in Tests /\ answers[p].eligibility \in Eligibilities \ {"NONE"}
          /\ \A s \in answers[p].signals : s.mat \in Materialities

--------------------------------------------------------------------------------
AnswerTo(test) == CHOOSE a \in Range(answers) : a.test = test
Cited(test) == UNION {s.from : s \in AnswerTo(test).signals}
AllAnswered == stage = "TESTS" /\ place = AllAsked

(* When the tests have run, every synthesising test cites exactly what the *)
(* run holds: no forensic, dependency, cash or supplier signal escaped     *)
(* because its test was answered later, and none is cited that is not      *)
(* there; and no test RISK-04 reads was left without a response            *)
(* (diagnostic/engine.py:508, 624, 679, 759, 770, 779).                    *)
SynthesisIsComplete ==
    AllAnswered =>
        \A test \in {"PRI-05", "SUP-06", "WC-07", "RISK-02", "RISK-03", "RISK-04"} :
            AnswerTo(test).eligibility # "UNAVAILABLE" \/ test \notin Refusing =>
                Cited(test) = {Name(x[1], x[2]) : x \in ReadBy(test)}

(* A run gives each of the 56 tests one answer, the hand-off's in place of *)
(* the one it overtakes; what was refused says nothing; and what an answer *)
(* records of its eligibility is what the run has stored                   *)
(* (diagnostic/engine.py:85, intake/bridge.py:139).                        *)
AnsweredOnce ==
    stage = "DONE" =>
        /\ \A test \in Tests : Cardinality({p \in DOMAIN answers : answers[p].test = test}) = 1
        /\ \A a \in Range(answers) :
              /\ a.test \in Refusing /\ a.eligibility = "UNAVAILABLE" => a.signals = {}
              /\ a.status = "NOT_RUN" => a.signals = {}
              /\ eligibility[a.test] # "NONE" /\ a.test \notin Range(Risk.tests)
                    => a.eligibility = eligibility[a.test]

(* A run answers every question once, with all that it holds.              *)
RunIsComplete == SynthesisIsComplete /\ AnsweredOnce
================================================================================
