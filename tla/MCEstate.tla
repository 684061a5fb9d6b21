------------------------------- MODULE MCEstate -------------------------------
(* The engines and registers that share no state: a diagnostic run, the    *)
(* agenda of its signals, the portfolio, the benefits, the longitudinal    *)
(* and restatement registers.  What one hands another (signals,            *)
(* candidates, opportunities) is a constant of the other's instance.  No   *)
(* step of one disturbs another, so instead of their product each is       *)
(* explored while the others are still where they start.                   *)
EXTENDS MCDiagnosticRun, MCLongitudinalRegister, Estate

CONSTANTS c1, c3, m1, o1, i1, k1, k2

(* Two runs: in the first one customer's fall is seen by two tests beside  *)
(* two control signals; in the second it recurs, with overdue receivables  *)
(* and a concentration, and the capacity schedule is refused.              *)
MCSignal(family, test, type, entity, mat, elig, fall, from, to) ==
    [family |-> family, test |-> test, type |-> type, entity |-> entity, mat |-> mat, eligibility |-> elig,
     fall |-> fall, from |-> from, to |-> to]
MCSignalsOf ==
    1 :> <<MCSignal("REV", "REV-02", "CUSTOMER_BRIDGE_LEG", "c1", "MEDIUM", "FULL", TRUE, 1, 2),
           MCSignal("CUS", "CUS-04", "CUSTOMER_DECLINE", "c1", "HIGH", "PARTIAL", TRUE, 1, 2),
           MCSignal("RISK", "RISK-01", "RECONCILIATION_EXCEPTION", "AR", "MEDIUM", "FULL", FALSE, 0, 0),
           MCSignal("RISK", "RISK-04", "GOVERNANCE_ACTION_CANDIDATE", "FI", "MEDIUM", "FULL", FALSE, 0, 0)>>
    @@ 2 :> <<MCSignal("CUS", "CUS-04", "CUSTOMER_DECLINE", "c1", "MEDIUM", "FULL", TRUE, 3, 4),
              MCSignal("WC", "WC-01", "AR_OVERDUE_OUTSTANDING", "BUSINESS", "HIGH", "PARTIAL", FALSE, 0, 4),
              MCSignal("CUS", "CUS-01", "TOP5_CONCENTRATION", "BUSINESS", "MEDIUM", "FULL", FALSE, 3, 4)>>
MCContextEvents ==
    {[type |-> "KNOWN_ONE_OFF", entity |-> "c1", from |-> 3, to |-> 3],
     [type |-> "MANAGEMENT_DISPUTE", entity |-> "c1", from |-> 0, to |-> 0],
     [type |-> "DATA_CONFLICT", entity |-> "", from |-> 0, to |-> 1],
     [type |-> "CONTRACT_CHANGE", entity |-> "c1", from |-> 0, to |-> 0]}

MCCandidateRun == [c \in Candidates |-> 1]
MCBucketOf == c1 :> "P" @@ c3 :> "C"
MCCeiling == c1 :> {2} @@ c3 :> {}
MCSupportedRun == [o \in Supported |-> 1]

VARIABLE part   \* the one that is explored

Parts == {"RUN", "AGENDA", "PORTFOLIO", "BENEFITS", "ISSUES", "TRACKED", "SOURCES", "BASELINES"}
estateVars == <<part, runVars, agendaVars, portfolioVars, benefitVars, longitudinalVars, restatementVars>>

EstateInit ==
    /\ part \in Parts
    /\ RunInit /\ (part # "RUN" => client = CHOOSE c \in Clients : TRUE)
    /\ AgendaInit /\ PortfolioInit /\ BenefitInit /\ LongitudinalInit /\ RestatementInit

EstateNext ==
    /\ UNCHANGED part
    /\ \/ /\ part = "RUN" /\ RunNext
          /\ UNCHANGED <<agendaVars, portfolioVars, benefitVars, longitudinalVars, restatementVars>>
       \/ /\ part = "AGENDA" /\ AgendaNext
          /\ UNCHANGED <<runVars, portfolioVars, benefitVars, longitudinalVars, restatementVars>>
       \/ /\ part = "PORTFOLIO" /\ PortfolioNext
          /\ UNCHANGED <<runVars, agendaVars, benefitVars, longitudinalVars, restatementVars>>
       \/ /\ part = "BENEFITS" /\ BenefitNext
          /\ UNCHANGED <<runVars, agendaVars, portfolioVars, longitudinalVars, restatementVars>>
       \/ /\ part = "ISSUES" /\ IssueNext
          /\ UNCHANGED <<runVars, agendaVars, portfolioVars, benefitVars, trackVars, restatementVars>>
       \/ /\ part = "TRACKED" /\ TrackNext
          /\ UNCHANGED <<runVars, agendaVars, portfolioVars, benefitVars, issueVars, restatementVars>>
       \/ /\ part = "SOURCES" /\ SourceNext
          /\ UNCHANGED <<runVars, agendaVars, portfolioVars, benefitVars, longitudinalVars, baselineVars>>
       \/ /\ part = "BASELINES" /\ BaselineNext
          /\ UNCHANGED <<runVars, agendaVars, portfolioVars, benefitVars, longitudinalVars, sourceVars>>

EstateSpec == EstateInit /\ [][EstateNext]_estateVars

================================================================================
