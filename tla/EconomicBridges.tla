---------------------------- MODULE EconomicBridges ----------------------------
(***************************************************************************)
(* Declared accounting packs and the bridges made of them                  *)
(* (intake/declared_accounting.py, reasoning/bridge).  A pack declares two *)
(* consecutive years of one client.  capture_pack registers it in two      *)
(* ledgers, each with a chain of source revisions and of dataset versions, *)
(* then captures the measurement contexts.  The legacy store commits after *)
(* every step of it, the contexts with the caller's transaction: a call    *)
(* that stops leaves a prefix.  A bridge is an immutable snapshot over the *)
(* captured contexts.                                                      *)
(***************************************************************************)
EXTENDS Integers, Sequences, FiniteSets, SequencesExt, Functions

CONSTANTS
    Packs,
    Pack,           \* [Packs -> PackFacts]
    BridgeRuns,
    MaxRegistered,  \* bounds: source revisions of a ledger, bridges
    MaxBridges

Ledger == {"PNL", "BALANCE_SHEET"}
Families == {"REVENUE_BRIDGE", "WORKING_CAPITAL_BRIDGE"}
Balance == [ar : Int, inventory : Int, ap : Int]

(* `history`: it lists releases it has superseded; `selected` is the       *)
(* movement of its selected customers and products.                        *)
PackFacts ==
    [year : Nat, history : BOOLEAN, revenue : [opening : Int, closing : Int], selected : Int,
     stock : [opening : Balance, closing : Balance]]

ASSUME PackAssumption == Pack \in [Packs -> PackFacts] /\ MaxBridges \in Nat

VARIABLES
    workbooks,      \* [Packs -> what became of the retained original]
    revisions,      \* [Ledger -> source revisions, in order]
    versions,       \* [Ledger -> dataset versions, in order: whose file]
    captured,       \* [Ledger -> versions whose contexts are bound]
    bridges         \* bridge snapshots, in order

bridgeVars == <<workbooks, revisions, versions, captured, bridges>>

Revision == [pack : Packs, of : {"SUPERSEDED_HISTORY", "RECORDS"}]
Selection == [opening : Nat, closing : Nat, detail : Nat]
BridgeRow ==
    [family : Families, year : Nat, run : BridgeRuns, used : Selection,
     opening : Int, closing : Int, components : [{"SELECTED", "AR", "INVENTORY", "AP"} -> Int],
     residual : Int, prior : 0 .. MaxBridges]

(* The tables keep the shape of their contracts.                           *)
BridgeTypeOK ==
    /\ workbooks \in [Packs -> {"ABSENT", "RETAINED", "LOST", "ALTERED"}]
    /\ revisions \in [Ledger -> Seq(Revision)] /\ versions \in [Ledger -> Seq(Packs)]
    /\ \A l \in Ledger : captured[l] \subseteq DOMAIN versions[l]
    /\ bridges \in Seq(BridgeRow)

BridgeInit ==
    /\ workbooks = [p \in Packs |-> "ABSENT"]
    /\ revisions = [l \in Ledger |-> <<>>] /\ versions = [l \in Ledger |-> <<>>]
    /\ captured = [l \in Ledger |-> {}] /\ bridges = <<>>

----------------------------------------------------------------------------
(* register_revision: only what the latest revision already is is no new   *)
(* one.                                                                    *)
Registered(chain, r) == IF IsSuffix(<<r>>, chain) THEN chain ELSE Append(chain, r)
Recorded(p) == [pack |-> p, of |-> "RECORDS"]
Superseded(p) == [pack |-> p, of |-> "SUPERSEDED_HISTORY"]

(* What `steps` of the registrations of a ledger make of its chain: the    *)
(* superseded releases first, then the records; nothing if those records   *)
(* were ever registered.                                                   *)
Chained(p, l, chain, steps) ==
    LET first == IF steps >= 1 /\ l = "PNL" /\ Pack[p].history THEN Registered(chain, Superseded(p)) ELSE chain
    IN  IF Recorded(p) \in Range(chain) THEN chain
        ELSE IF steps = 2 THEN Registered(first, Recorded(p)) ELSE first

Ingested(p, chain) == IF IsSuffix(<<p>>, chain) THEN chain ELSE Append(chain, p)

(* The call gets as far as `reach`: 0 the workbook is stored, then for     *)
(* each ledger its registrations (1, 2; 4, 5) and its ingestion (3; 6), 7  *)
(* the contexts of both are committed.  A lost workbook is stored again;   *)
(* one that was altered in the store refuses the pack.                     *)
CapturePack(p, reach) ==
    LET begun == [PNL |-> 0, BALANCE_SHEET |-> 3]
        steps(l) == IF reach >= begun[l] + 2 THEN 2 ELSE IF reach > begun[l] THEN 1 ELSE 0
    IN  /\ workbooks[p] # "ALTERED"
        /\ workbooks' = [workbooks EXCEPT ![p] = "RETAINED"]
        /\ revisions' = [l \in Ledger |-> Chained(p, l, revisions[l], steps(l))]
        /\ versions' = [l \in Ledger |->
               IF reach >= begun[l] + 3 THEN Ingested(p, versions[l]) ELSE versions[l]]
        /\ captured' = [l \in Ledger |->
               IF reach = 7 THEN captured[l] \cup {Len(versions'[l])} ELSE captured[l]]
        /\ UNCHANGED bridges

ChangeWorkbook(p, state) ==
    /\ workbooks[p] # "ABSENT"
    /\ workbooks' = [workbooks EXCEPT ![p] = state]
    /\ UNCHANGED <<revisions, versions, captured, bridges>>

----------------------------------------------------------------------------
LedgerOf(family) == IF family = "REVENUE_BRIDGE" THEN "PNL" ELSE "BALANCE_SHEET"
Used(sel) == {sel.opening, sel.closing, sel.detail} \ {0}

(* Every binding resolves: its context was captured and the original it    *)
(* names is as it was.                                                     *)
Resolved(l, sel) ==
    /\ sel.opening # 0 /\ sel.closing # 0 /\ Used(sel) \subseteq captured[l]
    /\ \A v \in Used(sel) : workbooks[versions[l][v]] = "RETAINED"

\* Mutant: the latest revision of the ledger is not asked for.
AnyRevision(l, sel) == \A v, w \in Used(sel) : versions[l][v] = versions[l][w]

(* One pack proves them all, and its records are the latest revision.      *)
SourceProof(l, sel) ==
    /\ \A v, w \in Used(sel) : versions[l][v] = versions[l][w]
    /\ \A v \in Used(sel) : IsSuffix(<<Recorded(versions[l][v])>>, revisions[l])

(* The endpoints are of one version; working capital has no detail.        *)
Qualified(family, sel) ==
    LET l == LedgerOf(family) IN
    /\ Resolved(l, sel) /\ SourceProof(l, sel)
    /\ sel.opening = sel.closing
    /\ family = "WORKING_CAPITAL_BRIDGE" => sel.detail = 0

Net(balance) == balance.ar + balance.inventory - balance.ap

Bridged(family, run, sel, prior) ==
    LET pack == Pack[versions[LedgerOf(family)][sel.opening]]
        before == pack.stock.opening  after == pack.stock.closing
        flow == family = "REVENUE_BRIDGE"
        movement == IF flow THEN pack.revenue.closing - pack.revenue.opening ELSE Net(after) - Net(before)
        parts == [SELECTED |-> IF flow /\ sel.detail # 0 THEN pack.selected ELSE 0,
                  AR |-> IF flow THEN 0 ELSE after.ar - before.ar,
                  INVENTORY |-> IF flow THEN 0 ELSE after.inventory - before.inventory,
                  AP |-> IF flow THEN 0 ELSE -(after.ap - before.ap)]
    IN  [family |-> family, year |-> pack.year, run |-> run, used |-> sel,
         opening |-> IF flow THEN pack.revenue.opening ELSE Net(before),
         closing |-> IF flow THEN pack.revenue.closing ELSE Net(after),
         components |-> parts,
         residual |-> movement - (parts.SELECTED + parts.AR + parts.INVENTORY + parts.AP), prior |-> prior]

Series(family, year) == {k \in DOMAIN bridges : bridges[k].family = family /\ bridges[k].year = year}
LatestOf(ks) == IF ks = {} THEN 0 ELSE CHOOSE k \in ks : \A j \in ks : j <= k

(* A bridge that is already stored is read back instead; a new one has to  *)
(* name the latest of its series.                                          *)
CreateBridge(family, run, sel, expected) ==
    LET b == Bridged(family, run, sel, expected) IN
    /\ Qualified(family, sel)
    /\ ~ \E k \in DOMAIN bridges : [bridges[k] EXCEPT !.prior = expected] = b
    /\ expected = LatestOf(Series(family, b.year))
    /\ bridges' = Append(bridges, b)
    /\ UNCHANGED <<workbooks, revisions, versions, captured>>

(* get(current=True): the run that made it assesses the same bridge again. *)
BridgeCurrent(k, reader) ==
    LET b == bridges[k] IN
    b.run = reader /\ Qualified(b.family, b.used) /\ Bridged(b.family, reader, b.used, b.prior) = b

BridgeNext ==
    \/ /\ \A l \in Ledger : Len(revisions[l]) + 2 <= MaxRegistered /\ Len(versions[l]) < MaxRegistered
       /\ \E p \in Packs, reach \in 0 .. 7 : CapturePack(p, reach)
    \/ \E p \in Packs, state \in {"RETAINED", "LOST", "ALTERED"} : ChangeWorkbook(p, state)
    \/ /\ Len(bridges) < MaxBridges
       /\ \E family \in Families, run \in BridgeRuns, expected \in 0 .. Len(bridges) :
          LET n == Len(versions[LedgerOf(family)]) IN
          \E opening, closing, detail \in 0 .. n :
              CreateBridge(family, run, [opening |-> opening, closing |-> closing, detail |-> detail], expected)

BridgeSpec == BridgeInit /\ [][BridgeNext]_bridgeVars

----------------------------------------------------------------------------
LastRecords(l) ==
    LET ks == {k \in DOMAIN revisions[l] : revisions[l][k].of = "RECORDS"} IN
    IF ks = {} THEN {} ELSE {revisions[l][LatestOf(ks)].pack}

(* Whoever reads bridges of one series as current, in whatever run, reads  *)
(* one opening and one closing figure, and they are those of the pack      *)
(* whose records were registered last, even if the capture of a later one  *)
(* never finished (engine.py:60, :134, service.py:60).                     *)
CurrentBridgesAgree ==
    \A k \in DOMAIN bridges : BridgeCurrent(k, bridges[k].run) =>
        LET b == bridges[k]  l == LedgerOf(b.family) IN
        /\ LastRecords(l) = {versions[l][b.used.opening]}
        /\ \A j \in Series(b.family, b.year) : BridgeCurrent(j, bridges[j].run) =>
               bridges[j].opening = b.opening /\ bridges[j].closing = b.closing
        /\ b.closing - b.opening - b.residual
             = b.components.SELECTED + b.components.AR + b.components.INVENTORY + b.components.AP

(* What was captured completely and was not followed by anything else can  *)
(* be bridged, in both ledgers, whatever earlier calls left behind; and    *)
(* the bridges of a series are one chain (declared_accounting.py:226-239,  *)
(* service.py:41).                                                         *)
CapturedCanBeBridged ==
    /\ \A p \in Packs, family \in Families :
        LET l == LedgerOf(family) IN
        LastRecords(l) = {p} /\ Last(revisions[l]).pack = p /\ workbooks[p] = "RETAINED"
            => \A v \in captured[l] : versions[l][v] = p =>
                   Qualified(family, [opening |-> v, closing |-> v, detail |-> 0])
    /\ \A k \in DOMAIN bridges :
        bridges[k].prior = LatestOf({j \in Series(bridges[k].family, bridges[k].year) : j < k})

BridgesAreSound == CurrentBridgesAgree /\ CapturedCanBeBridged
================================================================================
