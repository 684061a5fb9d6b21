--------------------------------- MODULE Estate ---------------------------------
(***************************************************************************)
(* The engines and registers a client's diagnosis goes through: the run,   *)
(* the agenda of its signals, the portfolio of its opportunities, the      *)
(* benefits realised, and the longitudinal and restatement registers.      *)
(* They share no state; what one hands another (signals, candidates,       *)
(* opportunities) is a constant of the other's module.                     *)
(***************************************************************************)
EXTENDS DiagnosticRun, AttentionAgenda, OpportunityPortfolio, BenefitRegister,
        LongitudinalRegister, RestatementRegister

(* Every engine and register keeps the shape of its tables.                *)
EstateTypeOK ==
    /\ RunTypeOK /\ AgendaTypeOK /\ PortfolioTypeOK /\ BenefitTypeOK
    /\ LongitudinalTypeOK /\ RestatementTypeOK

(* Nothing of a recovery envelope, a pair of related opportunities or a    *)
(* pair of related benefits is counted twice (economic/portfolio.py:67,    *)
(* management/engine.py:48).                                               *)
MoneyCountsOnce == EnvelopesCap /\ PairsCountOnce /\ BenefitsCountOnce

(* The threads and baselines of the longitudinal registers read back as    *)
(* their events say (management/longitudinal.py:93, restatement.py:54).    *)
RegistersReadBack == LongitudinalReadsBack /\ RestatementsReadBack
=================================================================================
