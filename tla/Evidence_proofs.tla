----------------------------- MODULE Evidence_proofs -----------------------------
(***************************************************************************)
(* Theorems about the kinds of evidence, for any packs, months, packages,  *)
(* measurements and relationships.  Each kind keeps tables that only grow  *)
(* (the graph's records may be lost, its links and events are not); a row  *)
(* is read as current if it would be derived again as it is.  What such a  *)
(* reading warrants follows from the order in which the rows came to be,   *)
(* which the invariants below keep.                                        *)
(***************************************************************************)
EXTENDS EconomicBridges, MonthlyEvidence, MeasurementContexts, EvidenceGraph,
        FiniteSetTheorems, SequenceTheorems, WellFoundedInduction, TLAPS

-----------------------------------------------------------------------------
(* Sequences *)

\* The first element, as a sequence.
LEMMA FirstOne ==
    ASSUME NEW S, NEW s \in Seq(S), Len(s) >= 1 PROVE SubSeq(s, 1, 1) = <<s[1]>>
<1> DEFINE c == SubSeq(s, 1, 1)
<1>1. c \in Seq(S) /\ Len(c) = 1 /\ c[1] = s[1]
    OBVIOUS
<1>2. <<s[1]>> \in Seq(S) /\ Len(<<s[1]>>) = 1 /\ <<s[1]>>[1] = s[1]
    OBVIOUS
<1> HIDE DEF c
<1>3. \A i \in 1 .. 1 : c[i] = <<s[1]>>[i]
    BY <1>1, <1>2
<1>4. c = <<s[1]>>
    BY <1>1, <1>2, <1>3, SeqEqual
<1> QED  BY <1>4 DEF c

\* A suffix of one element is the last.
LEMMA SuffixOne ==
    ASSUME NEW S, NEW s \in Seq(S), NEW x
    PROVE  IsSuffix(<<x>>, s) <=> s # <<>> /\ Last(s) = x
<1> DEFINE n == Len(s)
           b == Reverse(s)
           a == Reverse(<<x>>)
<1>1. n \in Nat /\ (s # <<>> <=> n >= 1)
    OBVIOUS
<1>2. Len(a) = 1 /\ a = <<x>>
    <2>1. a = [i \in 1 .. Len(<<x>>) |-> <<x>>[(Len(<<x>>) - i) + 1]]
        BY DEF Reverse
    <2>2. Len(<<x>>) = 1 /\ <<x>>[1] = x
        OBVIOUS
    <2>3. a = [i \in 1 .. 1 |-> x]
        BY <2>1, <2>2
    <2> HIDE DEF a
    <2>4. <<x>> = [i \in 1 .. 1 |-> x]
        OBVIOUS
    <2> QED  BY <2>2, <2>3, <2>4
<1>3. b \in Seq(S) /\ Len(b) = n /\ (n >= 1 => b[1] = s[n])
    <2>1. b = [i \in 1 .. n |-> s[(n - i) + 1]]
        BY DEF Reverse
    <2> HIDE DEF b
    <2>2. \A i \in 1 .. n : (n - i) + 1 \in 1 .. n /\ s[(n - i) + 1] \in S
        BY <1>1
    <2>3. b \in [1 .. n -> S]
        BY <2>1, <2>2
    <2>4. b \in Seq(S) /\ Len(b) = n
        BY <1>1, <2>3
    <2> QED  BY <1>1, <2>1, <2>4
<1> HIDE DEF a, b
<1>4. IsPrefix(a, b) <=> 1 <= n /\ SubSeq(<<x>>, 1, 1) = SubSeq(b, 1, 1)
    BY <1>2, <1>3 DEF IsPrefix
<1>5. ASSUME n >= 1 PROVE SubSeq(<<x>>, 1, 1) = SubSeq(b, 1, 1) <=> x = b[1]
    <2>1. SubSeq(<<x>>, 1, 1) = <<x>>
        <3> DEFINE u == <<x>>
        <3>1. u \in Seq({x}) /\ Len(u) >= 1 /\ <<u[1]>> = u
            OBVIOUS
        <3> HIDE DEF u
        <3>2. SubSeq(u, 1, 1) = <<u[1]>>
            BY <3>1, FirstOne
        <3>3. SubSeq(u, 1, 1) = u
            BY <3>1, <3>2
        <3> QED  BY <3>3 DEF u
    <2>2. SubSeq(b, 1, 1) = <<b[1]>>
        BY <1>1, <1>3, <1>5, FirstOne
    <2> QED  BY <2>1, <2>2
<1>6. IsSuffix(<<x>>, s) <=> IsPrefix(a, b)
    BY DEF IsSuffix, a, b
<1> QED  BY <1>1, <1>3, <1>4, <1>5, <1>6 DEF Last

\* Some number of a bounded set of naturals is the greatest.
LEMMA GreatestNatural ==
    ASSUME NEW n \in Nat, NEW T, T # {}, \A m \in T : m \in 0 .. n
    PROVE  \E k \in T : \A j \in T : j <= k
<1> DEFINE below == {ss \in Nat \X Nat : ss[1] < ss[2]}
           U == {m \in Nat : n - m \in T}
<1>1. IsWellFoundedOn(below, Nat)
    BY NatLessThanWellFounded, Zenon DEF OpToRel
<1>2. U \subseteq Nat /\ U # {}
    <2>1. PICK k \in T : TRUE
        OBVIOUS
    <2>2. n - k \in Nat /\ n - (n - k) = k
        BY <2>1
    <2> QED  BY <2>1, <2>2
<1>3. PICK m \in U : \A i \in U : ~ (<<i, m>> \in below)
    <2> HIDE DEF below, U
    <2> QED  BY <1>1, <1>2, WFMin, Zenon
<1>4. ASSUME NEW j \in T PROVE j <= n - m
    <2>1. n - j \in Nat /\ n - (n - j) = j /\ n - j \in U
        OBVIOUS
    <2>2. ~ (n - j < m)
        BY <1>3, <2>1
    <2> QED  BY <2>1, <2>2
<1> QED  BY <1>3, <1>4

\* A set of bounded naturals that is not empty has a least element.
LEMMA LeastNatural ==
    ASSUME NEW n \in Nat, NEW T, T # {}, \A m \in T : m \in 0 .. n
    PROVE  \E m \in T : \A j \in T : m <= j
<1> DEFINE U == {m \in 0 .. n : n - m \in T}
<1>1. U \subseteq 0 .. n /\ U # {}
    <2>1. PICK k \in T : TRUE
        OBVIOUS
    <2>2. n - k \in 0 .. n /\ n - (n - k) = k
        BY <2>1
    <2> QED  BY <2>1, <2>2
<1>2. PICK m \in U : \A i \in U : i <= m
    <2>1. \A m \in U : m \in 0 .. n
        OBVIOUS
    <2> HIDE DEF U
    <2> QED  BY <1>1, <2>1, GreatestNatural
<1>3. ASSUME NEW j \in T PROVE n - m <= j
    <2>1. n - j \in U
        <3>1. j \in 0 .. n /\ n - (n - j) = j
            OBVIOUS
        <3> QED  BY <3>1
    <2>2. n - j <= m /\ m \in 0 .. n
        BY <1>2, <2>1
    <2> QED  BY <2>2
<1> QED  BY <1>2, <1>3

-----------------------------------------------------------------------------
(* Bridges *)

\* No superseded release of a pack follows the records of that pack.
Ordered(chain) ==
    \A i, j \in 1 .. Len(chain) :
        i < j /\ chain[i].of = "RECORDS" /\ chain[j].of = "SUPERSEDED_HISTORY" => chain[i].pack # chain[j].pack

\* The bridges of a series are one chain.
Before(bs, k) == {j \in DOMAIN bs : bs[j].family = bs[k].family /\ bs[j].year = bs[k].year /\ j < k}
Chains(bs) == \A k \in DOMAIN bs : bs[k].prior = LatestOf(Before(bs, k))

BridgeInv ==
    /\ BridgeTypeOK
    /\ captured \in [Ledger -> SUBSET Nat]
    /\ \A l \in Ledger : Ordered(revisions[l])
    /\ Chains(bridges)

\* The greatest of a set is the one that is latest.
LEMMA LatestIs ==
    ASSUME NEW ks, NEW k \in ks, \A j \in ks : j \in Int /\ j <= k PROVE LatestOf(ks) = k
<1>1. LatestOf(ks) = CHOOSE m \in ks : \A j \in ks : j <= m
    BY DEF LatestOf
<1>2. LatestOf(ks) \in ks /\ \A j \in ks : j <= LatestOf(ks)
    BY <1>1
<1> QED  BY <1>2

\* A registration keeps the order unless it is a release of records already there.
LEMMA RegisteredOrdered ==
    ASSUME NEW chain \in Seq(Revision), Ordered(chain), NEW r \in Revision,
           r.of = "RECORDS" \/ Recorded(r.pack) \notin Range(chain)
    PROVE  Registered(chain, r) \in Seq(Revision) /\ Ordered(Registered(chain, r))
<1> DEFINE n == Len(chain)
           c == Append(chain, r)
<1>1. n \in Nat /\ c \in Seq(Revision) /\ Len(c) = n + 1 /\ c[n + 1] = r
      /\ \A i \in 1 .. n : c[i] = chain[i] /\ chain[i] \in Revision
    OBVIOUS
<1>2. ASSUME NEW i \in 1 .. n, chain[i].of = "RECORDS", chain[i].pack = r.pack
      PROVE  Recorded(r.pack) \in Range(chain)
    <2>1. chain[i] = Recorded(r.pack)
        BY <1>1, <1>2 DEF Revision, Recorded
    <2> QED  BY <2>1 DEF Range
<1> HIDE DEF c
<1>3. ASSUME NEW i \in 1 .. n + 1, NEW j \in 1 .. n + 1, i < j, c[i].of = "RECORDS", c[j].of = "SUPERSEDED_HISTORY"
      PROVE  c[i].pack # c[j].pack
    <2>1. i \in 1 .. n /\ c[i] = chain[i]
        BY <1>1, <1>3
    <2>2. CASE j \in 1 .. n
        BY <1>1, <1>3, <2>1, <2>2 DEF Ordered
    <2>3. CASE j = n + 1
        BY <1>1, <1>2, <1>3, <2>1, <2>3
    <2> QED  BY <1>1, <2>2, <2>3
<1>4. Ordered(c)
    BY <1>1, <1>3 DEF Ordered
<1> QED  BY <1>1, <1>4 DEF Registered, c

\* So does everything a call registers in a ledger.
LEMMA ChainedOrdered ==
    ASSUME NEW p \in Packs, NEW l, NEW chain \in Seq(Revision), Ordered(chain), NEW steps
    PROVE  Chained(p, l, chain, steps) \in Seq(Revision) /\ Ordered(Chained(p, l, chain, steps))
<1> DEFINE first == IF steps >= 1 /\ l = "PNL" /\ Pack[p].history
                    THEN Registered(chain, Superseded(p)) ELSE chain
<1>1. /\ Recorded(p) \in Revision /\ Recorded(p).of = "RECORDS"
      /\ Superseded(p) \in Revision /\ Superseded(p).pack = p
    BY DEF Recorded, Superseded, Revision
<1>2. ASSUME Recorded(p) \notin Range(chain) PROVE first \in Seq(Revision) /\ Ordered(first)
    BY <1>1, <1>2, RegisteredOrdered
<1> HIDE DEF first
<1>3. ASSUME Recorded(p) \notin Range(chain)
      PROVE  Registered(first, Recorded(p)) \in Seq(Revision) /\ Ordered(Registered(first, Recorded(p)))
    BY <1>1, <1>2, <1>3, RegisteredOrdered
<1> QED  BY <1>2, <1>3 DEF Chained, first

\* The fields of a bridge.
LEMMA BridgedFields ==
    ASSUME NEW family \in Families, NEW run \in BridgeRuns, NEW sel \in Selection,
           NEW prior \in 0 .. MaxBridges, versions[LedgerOf(family)][sel.opening] \in Packs
    PROVE  LET b == Bridged(family, run, sel, prior)
               x == Pack[versions[LedgerOf(family)][sel.opening]]
           IN  /\ b \in BridgeRow
               /\ b.family = family /\ b.year = x.year /\ b.run = run /\ b.used = sel /\ b.prior = prior
               /\ b.opening = IF family = "REVENUE_BRIDGE" THEN x.revenue.opening ELSE Net(x.stock.opening)
               /\ b.closing = IF family = "REVENUE_BRIDGE" THEN x.revenue.closing ELSE Net(x.stock.closing)
               /\ b.closing - b.opening - b.residual
                    = b.components.SELECTED + b.components.AR + b.components.INVENTORY + b.components.AP
<1> DEFINE x == Pack[versions[LedgerOf(family)][sel.opening]]
           before == x.stock.opening
           after == x.stock.closing
           flow == family = "REVENUE_BRIDGE"
           movement == IF flow THEN x.revenue.closing - x.revenue.opening ELSE Net(after) - Net(before)
           sold == IF flow /\ sel.detail # 0 THEN x.selected ELSE 0
           ar == IF flow THEN 0 ELSE after.ar - before.ar
           inventory == IF flow THEN 0 ELSE after.inventory - before.inventory
           ap == IF flow THEN 0 ELSE -(after.ap - before.ap)
           parts == [SELECTED |-> sold, AR |-> ar, INVENTORY |-> inventory, AP |-> ap]
           opening == IF flow THEN x.revenue.opening ELSE Net(before)
           closing == IF flow THEN x.revenue.closing ELSE Net(after)
           residual == movement - (parts.SELECTED + parts.AR + parts.INVENTORY + parts.AP)
           b == [family |-> family, year |-> x.year, run |-> run, used |-> sel, opening |-> opening,
                 closing |-> closing, components |-> parts, residual |-> residual, prior |-> prior]
<1>1. b = Bridged(family, run, sel, prior)
    BY DEF Bridged
<1>2. x \in PackFacts
    BY PackAssumption
<1> HIDE DEF opening, closing, sold, ar, inventory, ap, movement, residual, parts, b, before, after, x
<1>3. /\ x.year \in Nat /\ x.revenue.opening \in Int /\ x.revenue.closing \in Int /\ x.selected \in Int
      /\ before \in Balance /\ after \in Balance
    BY <1>2 DEF PackFacts, before, after
<1>4. /\ before.ar \in Int /\ before.inventory \in Int /\ before.ap \in Int
      /\ after.ar \in Int /\ after.inventory \in Int /\ after.ap \in Int
    BY <1>3 DEF Balance
<1>5. Net(before) \in Int /\ Net(after) \in Int
    BY <1>4 DEF Net
<1>6. /\ opening \in Int /\ closing \in Int /\ movement = closing - opening
      /\ sold \in Int /\ ar \in Int /\ inventory \in Int /\ ap \in Int
    <2>1. opening \in Int /\ closing \in Int /\ movement = closing - opening
        BY <1>3, <1>5 DEF opening, closing, movement
    <2>2. sold \in Int
        BY <1>3 DEF sold
    <2>3. ar \in Int /\ inventory \in Int /\ ap \in Int
        BY <1>4 DEF ar, inventory, ap
    <2> QED  BY <2>1, <2>2, <2>3
<1>7. /\ parts \in [{"SELECTED", "AR", "INVENTORY", "AP"} -> Int]
      /\ parts.SELECTED = sold /\ parts.AR = ar /\ parts.INVENTORY = inventory /\ parts.AP = ap
    BY <1>6 DEF parts
<1>8. residual \in Int /\ closing - opening - residual = parts.SELECTED + parts.AR + parts.INVENTORY + parts.AP
    BY <1>6, <1>7 DEF residual
<1>9. b \in BridgeRow
    BY <1>3, <1>6, <1>7, <1>8 DEF BridgeRow, b
<1>10. /\ b.family = family /\ b.year = x.year /\ b.run = run /\ b.used = sel /\ b.prior = prior
       /\ b.opening = opening /\ b.closing = closing /\ b.residual = residual /\ b.components = parts
    BY DEF b
<1> QED  BY <1>1, <1>8, <1>9, <1>10 DEF opening, closing, before, after, x

\* A qualified selection opens with a version of the pack whose records are the latest revision.
LEMMA QualifiedPack ==
    ASSUME BridgeInv, NEW family \in Families, NEW sel \in Selection, Qualified(family, sel)
    PROVE  LET l == LedgerOf(family)  p == versions[l][sel.opening] IN
           /\ l \in Ledger /\ p \in Packs
           /\ IsSuffix(<<Recorded(p)>>, revisions[l])
<1> DEFINE l == LedgerOf(family)
<1>1. l \in Ledger
    BY DEF LedgerOf, Ledger
<1>2. sel.opening \in Used(sel)
    BY DEF Qualified, Resolved, Used
<1>3. sel.opening \in captured[l]
    BY <1>2 DEF Qualified, Resolved
<1>4. versions[l] \in Seq(Packs) /\ sel.opening \in DOMAIN versions[l]
    BY <1>1, <1>3 DEF BridgeInv, BridgeTypeOK
<1>5. versions[l][sel.opening] \in Packs
    BY <1>4
<1> QED  BY <1>1, <1>2, <1>5 DEF Qualified, SourceProof

\* Those are then the last records.
LEMMA LatestRecords ==
    ASSUME BridgeInv, NEW l \in Ledger, NEW p \in Packs, IsSuffix(<<Recorded(p)>>, revisions[l])
    PROVE  LastRecords(l) = {p}
<1> DEFINE chain == revisions[l]
           n == Len(chain)
           ks == {k \in DOMAIN chain : chain[k].of = "RECORDS"}
<1>1. chain \in Seq(Revision)
    BY DEF BridgeInv, BridgeTypeOK
<1>2. chain # <<>> /\ Last(chain) = Recorded(p)
    BY <1>1, SuffixOne
<1>3. n \in Nat /\ n >= 1 /\ DOMAIN chain = 1 .. n /\ chain[n].of = "RECORDS" /\ chain[n].pack = p
    BY <1>1, <1>2 DEF Last, Recorded
<1>4. n \in ks /\ \A j \in ks : j \in Int /\ j <= n
    BY <1>3
<1>5. LatestOf(ks) = n
    BY <1>4, LatestIs
<1>6. LastRecords(l) = IF ks = {} THEN {} ELSE {chain[LatestOf(ks)].pack}
    BY DEF LastRecords
<1> HIDE DEF ks
<1> QED  BY <1>3, <1>4, <1>5, <1>6

\* The empty ledgers.
LEMMA BridgesInit == BridgeInit => BridgeInv
BY DEF BridgeInit, BridgeInv, BridgeTypeOK, Ordered, Chains, Ledger

\* A call that captures a pack, however far it gets, keeps the order of both ledgers.
LEMMA CapturePackInv ==
    ASSUME BridgeInv, NEW p \in Packs, NEW reach \in 0 .. 7, CapturePack(p, reach) PROVE BridgeInv'
<1> DEFINE begun == [PNL |-> 0, BALANCE_SHEET |-> 3]
           steps(l) == IF reach >= begun[l] + 2 THEN 2 ELSE IF reach > begun[l] THEN 1 ELSE 0
           held(l) == IF reach >= begun[l] + 3 THEN Ingested(p, versions[l]) ELSE versions[l]
<1>1. /\ workbooks' = [workbooks EXCEPT ![p] = "RETAINED"] /\ bridges' = bridges
      /\ revisions' = [l \in Ledger |-> Chained(p, l, revisions[l], steps(l))]
      /\ versions' = [l \in Ledger |-> held(l)]
      /\ captured' = [l \in Ledger |-> IF reach = 7 THEN captured[l] \cup {Len(versions'[l])} ELSE captured[l]]
    BY DEF CapturePack
<1>2. ASSUME NEW l \in Ledger
      PROVE  /\ held(l) \in Seq(Packs) /\ Len(versions[l]) <= Len(held(l)) /\ Len(versions[l]) \in Nat
             /\ reach = 7 => Len(held(l)) >= 1
    <2>1. versions[l] \in Seq(Packs)
        BY DEF BridgeInv, BridgeTypeOK
    <2>2. IsSuffix(<<p>>, versions[l]) => Len(versions[l]) >= 1
        BY <2>1, SuffixOne
    <2>3. begun[l] \in {0, 3}
        BY DEF Ledger
    <2>4. /\ Ingested(p, versions[l]) \in Seq(Packs)
          /\ Len(versions[l]) <= Len(Ingested(p, versions[l])) /\ Len(Ingested(p, versions[l])) >= 1
        BY <2>1, <2>2 DEF Ingested
    <2> QED  BY <2>1, <2>3, <2>4
<1> HIDE DEF held
<1>3. versions' \in [Ledger -> Seq(Packs)]
    BY <1>1, <1>2
<1>4. ASSUME NEW l \in Ledger PROVE captured'[l] \subseteq DOMAIN versions'[l] /\ captured'[l] \in SUBSET Nat
    <2>1. versions'[l] = held(l) /\ DOMAIN versions'[l] = 1 .. Len(held(l)) /\ Len(held(l)) \in Nat
        BY <1>1, <1>2
    <2>2. captured[l] \subseteq 1 .. Len(versions[l]) /\ captured[l] \in SUBSET Nat
        BY DEF BridgeInv, BridgeTypeOK
    <2>3. captured'[l] = IF reach = 7 THEN captured[l] \cup {Len(held(l))} ELSE captured[l]
        BY <1>1, <2>1
    <2> QED  BY <1>2, <2>1, <2>2, <2>3
<1>5. captured' \in [Ledger -> SUBSET Nat]
    BY <1>1, <1>4
<1> HIDE DEF steps
<1>6. revisions' \in [Ledger -> Seq(Revision)] /\ \A l \in Ledger : Ordered(revisions'[l])
    <2>1. \A l \in Ledger : revisions[l] \in Seq(Revision) /\ Ordered(revisions[l])
        BY DEF BridgeInv, BridgeTypeOK
    <2>2. \A l \in Ledger : /\ Chained(p, l, revisions[l], steps(l)) \in Seq(Revision)
                            /\ Ordered(Chained(p, l, revisions[l], steps(l)))
        BY <2>1, ChainedOrdered
    <2> QED  BY <1>1, <2>2
<1>7. Chains(bridges')
    BY <1>1 DEF BridgeInv
<1>8. BridgeTypeOK'
    BY <1>1, <1>3, <1>4, <1>6 DEF BridgeInv, BridgeTypeOK
<1> QED  BY <1>5, <1>6, <1>7, <1>8 DEF BridgeInv

\* A bridge is added at the end of its series.
LEMMA CreateBridgeInv ==
    ASSUME BridgeInv, Len(bridges) < MaxBridges, NEW family \in Families, NEW run \in BridgeRuns,
           NEW sel \in Selection, NEW expected \in 0 .. Len(bridges), CreateBridge(family, run, sel, expected)
    PROVE  BridgeInv'
<1> DEFINE b == Bridged(family, run, sel, expected)
           n == Len(bridges)
<1>1. /\ UNCHANGED <<workbooks, revisions, versions, captured>> /\ bridges' = Append(bridges, b)
      /\ expected = LatestOf(Series(family, b.year)) /\ Qualified(family, sel)
    BY DEF CreateBridge
<1>2. bridges \in Seq(BridgeRow) /\ n \in Nat
    BY DEF BridgeInv, BridgeTypeOK
<1>3. expected \in 0 .. MaxBridges
    BY <1>2, PackAssumption
<1>4. versions[LedgerOf(family)][sel.opening] \in Packs
    BY <1>1, QualifiedPack
<1>5. b \in BridgeRow /\ b.family = family /\ b.prior = expected
    BY <1>3, <1>4, BridgedFields
<1> HIDE DEF b
<1>6. /\ bridges' \in Seq(BridgeRow) /\ DOMAIN bridges' = 1 .. n + 1 /\ DOMAIN bridges = 1 .. n
      /\ bridges'[n + 1] = b /\ \A k \in 1 .. n : bridges'[k] = bridges[k]
    BY <1>1, <1>2, <1>5
<1>8. ASSUME NEW k \in 1 .. n + 1 PROVE bridges'[k].prior = LatestOf(Before(bridges', k))
    <2>1. CASE k = n + 1
        <3>1. Before(bridges', k) = Series(family, b.year)
            BY <1>2, <1>5, <1>6, <2>1 DEF Before, Series
        <3> QED  BY <1>1, <1>5, <1>6, <2>1, <3>1
    <2>2. CASE k \in 1 .. n
        <3>1. bridges[k].prior = LatestOf(Before(bridges, k))
            BY <1>6, <2>2 DEF BridgeInv, Chains
        <3>2. Before(bridges', k) = Before(bridges, k)
            BY <1>2, <1>6, <2>2 DEF Before
        <3> QED  BY <1>6, <2>2, <3>1, <3>2
    <2> QED  BY <1>2, <2>1, <2>2
<1>9. Chains(bridges')
    BY <1>6, <1>8 DEF Chains
<1>10. BridgeTypeOK'
    BY <1>1, <1>6 DEF BridgeInv, BridgeTypeOK
<1> QED  BY <1>1, <1>9, <1>10 DEF BridgeInv

\* Every step keeps the ledgers in order and the series chained.
LEMMA BridgesNext == BridgeInv /\ [BridgeNext]_bridgeVars => BridgeInv'
<1> SUFFICES ASSUME BridgeInv, [BridgeNext]_bridgeVars PROVE BridgeInv'
    OBVIOUS
<1>1. ASSUME NEW p \in Packs, NEW state \in {"RETAINED", "LOST", "ALTERED"}, ChangeWorkbook(p, state)
      PROVE  BridgeInv'
    <2>1. workbooks' \in [Packs -> {"ABSENT", "RETAINED", "LOST", "ALTERED"}]
          /\ UNCHANGED <<revisions, versions, captured, bridges>>
        BY <1>1 DEF ChangeWorkbook, BridgeInv, BridgeTypeOK
    <2> QED  BY <2>1 DEF BridgeInv, BridgeTypeOK
<1>2. CASE UNCHANGED bridgeVars
    BY <1>2 DEF bridgeVars, BridgeInv, BridgeTypeOK
<1>3. ASSUME Len(bridges) < MaxBridges, NEW family \in Families, NEW run \in BridgeRuns,
             NEW expected \in 0 .. Len(bridges),
             NEW opening \in 0 .. Len(versions[LedgerOf(family)]),
             NEW closing \in 0 .. Len(versions[LedgerOf(family)]),
             NEW detail \in 0 .. Len(versions[LedgerOf(family)]),
             CreateBridge(family, run, [opening |-> opening, closing |-> closing, detail |-> detail], expected)
      PROVE  BridgeInv'
    <2>1. Len(versions[LedgerOf(family)]) \in Nat
        BY DEF BridgeInv, BridgeTypeOK, LedgerOf, Ledger
    <2>2. [opening |-> opening, closing |-> closing, detail |-> detail] \in Selection
        BY <2>1 DEF Selection
    <2> QED  BY <1>3, <2>2, CreateBridgeInv
<1> QED  BY <1>1, <1>2, <1>3, CapturePackInv DEF BridgeNext

\* The inductive invariant of packs and bridges.
LEMMA BridgesInvariance == BridgeSpec => []BridgeInv
BY BridgesInit, BridgesNext, PTL DEF BridgeSpec

\* Packs, ledgers and bridges keep the shape of their contracts.
THEOREM BridgeTypeCorrect == BridgeSpec => []BridgeTypeOK
<1>1. BridgeInv => BridgeTypeOK
    BY SMTT(30) DEF BridgeInv
<1> QED  BY <1>1, BridgesInvariance, PTL

\* Readers of one series agree.
LEMMA BridgesAgree == BridgeInv => CurrentBridgesAgree
<1> SUFFICES ASSUME BridgeInv, NEW k \in DOMAIN bridges, BridgeCurrent(k, bridges[k].run)
             PROVE  LET b == bridges[k]  l == LedgerOf(b.family) IN
                    /\ LastRecords(l) = {versions[l][b.used.opening]}
                    /\ \A j \in Series(b.family, b.year) : BridgeCurrent(j, bridges[j].run) =>
                           bridges[j].opening = b.opening /\ bridges[j].closing = b.closing
                    /\ b.closing - b.opening - b.residual
                         = b.components.SELECTED + b.components.AR + b.components.INVENTORY + b.components.AP
    BY DEF CurrentBridgesAgree
<1> DEFINE Now(i) == BridgeCurrent(i, bridges[i].run)
           x(i) == versions[LedgerOf(bridges[i].family)][bridges[i].used.opening]
<1>1. ASSUME NEW i \in DOMAIN bridges, Now(i)
      PROVE  /\ x(i) \in Packs /\ LastRecords(LedgerOf(bridges[i].family)) = {x(i)}
             /\ bridges[i].opening = IF bridges[i].family = "REVENUE_BRIDGE" THEN Pack[x(i)].revenue.opening
                                     ELSE Net(Pack[x(i)].stock.opening)
             /\ bridges[i].closing = IF bridges[i].family = "REVENUE_BRIDGE" THEN Pack[x(i)].revenue.closing
                                     ELSE Net(Pack[x(i)].stock.closing)
             /\ bridges[i].closing - bridges[i].opening - bridges[i].residual
                  = bridges[i].components.SELECTED + bridges[i].components.AR
                    + bridges[i].components.INVENTORY + bridges[i].components.AP
    <2> DEFINE b == bridges[i]
    <2>1. b \in BridgeRow
        BY DEF BridgeInv, BridgeTypeOK
    <2>2. b.family \in Families /\ b.run \in BridgeRuns /\ b.used \in Selection /\ b.prior \in 0 .. MaxBridges
        BY <2>1 DEF BridgeRow
    <2>3. Qualified(b.family, b.used) /\ Bridged(b.family, b.run, b.used, b.prior) = b
        BY <1>1 DEF BridgeCurrent
    <2> HIDE DEF b
    <2>4. /\ LedgerOf(b.family) \in Ledger /\ versions[LedgerOf(b.family)][b.used.opening] \in Packs
          /\ IsSuffix(<<Recorded(versions[LedgerOf(b.family)][b.used.opening])>>, revisions[LedgerOf(b.family)])
        BY <2>2, <2>3, QualifiedPack
    <2>5. LastRecords(LedgerOf(b.family)) = {versions[LedgerOf(b.family)][b.used.opening]}
        BY SMTT(30), <2>4, LatestRecords
    <2> DEFINE c == Bridged(b.family, b.run, b.used, b.prior)
               y == versions[LedgerOf(b.family)][b.used.opening]
    <2>6. /\ c.opening = IF b.family = "REVENUE_BRIDGE" THEN Pack[y].revenue.opening ELSE Net(Pack[y].stock.opening)
          /\ c.closing = IF b.family = "REVENUE_BRIDGE" THEN Pack[y].revenue.closing ELSE Net(Pack[y].stock.closing)
          /\ c.closing - c.opening - c.residual
                = c.components.SELECTED + c.components.AR + c.components.INVENTORY + c.components.AP
        BY SMTT(30), <2>2, <2>4, BridgedFields
    <2>7. y \in Packs /\ LastRecords(LedgerOf(b.family)) = {y} /\ c = b
        BY <2>3, <2>4, <2>5
    <2>8. x(i) = y
        BY DEF b
    <2> HIDE DEF c, y
    <2> QED  BY <2>6, <2>7, <2>8 DEF b
<1> HIDE DEF x
<1>2. ASSUME NEW j \in Series(bridges[k].family, bridges[k].year), Now(j)
      PROVE  bridges[j].opening = bridges[k].opening /\ bridges[j].closing = bridges[k].closing
    <2>1. j \in DOMAIN bridges /\ bridges[j].family = bridges[k].family
        BY DEF Series
    <2>2. {x(j)} = {x(k)}
        BY <1>1, <1>2, <2>1
    <2>3. x(j) = x(k)
        BY <2>2
    <2> QED  BY <1>1, <1>2, <2>1, <2>3
<1> QED  BY <1>1, <1>2 DEF x

\* What was captured last can be bridged, and every series is one chain.
LEMMA BridgesPossible == BridgeInv => CapturedCanBeBridged
<1> SUFFICES ASSUME BridgeInv PROVE CapturedCanBeBridged
    OBVIOUS
<1>1. ASSUME NEW p \in Packs, NEW family \in Families,
             LastRecords(LedgerOf(family)) = {p}, Last(revisions[LedgerOf(family)]).pack = p,
             workbooks[p] = "RETAINED", NEW v \in captured[LedgerOf(family)],
             versions[LedgerOf(family)][v] = p
      PROVE  Qualified(family, [opening |-> v, closing |-> v, detail |-> 0])
    <2> DEFINE l == LedgerOf(family)
               chain == revisions[l]
               n == Len(chain)
               ks == {k \in DOMAIN chain : chain[k].of = "RECORDS"}
               sel == [opening |-> v, closing |-> v, detail |-> 0]
    <2>1. l \in Ledger
        BY DEF LedgerOf, Ledger
    <2>2. chain \in Seq(Revision) /\ Ordered(chain) /\ v \in Nat \ {0}
        BY <1>1, <2>1 DEF BridgeInv, BridgeTypeOK
    <2>3. LastRecords(l) = IF ks = {} THEN {} ELSE {chain[LatestOf(ks)].pack}
        BY DEF LastRecords
    <2>4. PICK k \in ks : chain[k].pack = p
        <3>1. ks # {} /\ {chain[LatestOf(ks)].pack} = {p}
            BY <1>1, <2>3
        <3>2. LatestOf(ks) \in ks
            <4>1. \E m \in ks : \A j \in ks : j <= m
                <5>1. ks \subseteq 1 .. n /\ n \in Nat
                    BY <2>2
                <5>2. \A m \in ks : m \in 0 .. n
                    BY <5>1
                <5> HIDE DEF ks
                <5> QED  BY <3>1, <5>1, <5>2, GreatestNatural
            <4> QED  BY <3>1, <4>1 DEF LatestOf
        <3> QED  BY <3>1, <3>2
    <2>5. n \in Nat /\ n >= 1 /\ DOMAIN chain = 1 .. n /\ k \in 1 .. n /\ chain[k].of = "RECORDS"
        BY <2>2, <2>4
    <2>6. chain[n].pack = p /\ chain[n] \in Revision
        BY <1>1, <2>2, <2>5 DEF Last
    <2>7. chain[n].of = "RECORDS"
        BY <2>2, <2>4, <2>5, <2>6 DEF Ordered, Revision
    <2>8. chain[n] = Recorded(p)
        BY <2>6, <2>7 DEF Revision, Recorded
    <2>9. IsSuffix(<<Recorded(p)>>, chain)
        BY <2>2, <2>5, <2>8, SuffixOne DEF Last
    <2>10. Used(sel) = {v}
        BY <2>2 DEF Used
    <2>11. sel.opening = v /\ sel.closing = v /\ sel.detail = 0
        OBVIOUS
    <2> HIDE DEF sel
    <2>12. Resolved(l, sel)
        BY <1>1, <2>2, <2>10, <2>11 DEF Resolved
    <2>13. SourceProof(l, sel)
        BY <1>1, <2>9, <2>10 DEF SourceProof
    <2> QED  BY <2>11, <2>12, <2>13 DEF Qualified, sel
<1>2. ASSUME NEW k \in DOMAIN bridges
      PROVE  bridges[k].prior = LatestOf({j \in Series(bridges[k].family, bridges[k].year) : j < k})
    <2>1. Before(bridges, k) = {j \in Series(bridges[k].family, bridges[k].year) : j < k}
        BY DEF Before, Series
    <2> QED  BY <2>1 DEF BridgeInv, Chains
<1> QED  BY <1>1, <1>2 DEF CapturedCanBeBridged

\* Whatever captures stop half-way and whatever is bridged when: readers of one series
\* agree on figures of the pack registered last, a bridge adds up, what was captured
\* completely can be bridged, and a series is one chain (engine.py:60, service.py:41).
THEOREM BridgesSound == BridgeSpec => []BridgesAreSound
<1>1. BridgeInv => BridgesAreSound
    BY BridgesAgree, BridgesPossible DEF BridgesAreSound
<1> QED  BY <1>1, BridgesInvariance, PTL

-----------------------------------------------------------------------------
(* Monthly figures *)

\* What OwnersAreRevised says of the owners of one family.
Revised(owners) ==
    \A i, j \in DOMAIN owners :
        /\ Month[owners[i].package].lacks = {} /\ owners[i].vouched = Part
        /\ i < j => owners[i].package # owners[j].package
        /\ i = 1 => owners[i].roots = {owners[i].package} /\ Month[owners[i].package].from = "NONE"
        /\ j = i + 1 => Month[owners[j].package].from = owners[i].package

MonthInv ==
    /\ MonthTypeOK
    /\ monthly \in [Family -> Seq(MonthlyRow)]
    /\ IsFiniteSet(imported)
    /\ \A f \in Family : Revised(monthly[f])

\* Documents that fail to verify nothing lack nothing, and every part is vouched for.
LEMMA Verified ==
    ASSUME NEW p \in Months, NEW before, Unverified(p, before) = {}
    PROVE  Month[p].lacks = {} /\ Vouched(p) = Part /\ RevisionVerified(p, before)
<1> DEFINE lacks == Month[p].lacks
           trusted == "SOURCE" \in Vouched(p)
           member == trusted /\ lacks \cap {"KIND", "MEMBERS", "BOUNDARY"} = {}
<1>1. /\ {d \in {"SOURCE"} : ~trusted \/ "BOUNDARY" \in lacks} = {}
      /\ {d \in {"POPULATION"} : ~member} = {}
      /\ {d \in {"COVERAGE"} : ~(/\ member /\ "CONTROL" \in Vouched(p)
                                 /\ lacks \cap {"EXCLUDED", "MISMATCH", "UNOBSERVED"} = {})} = {}
      /\ {d \in {"PERIOD"} : ~trusted \/ "PERIOD" \in lacks} = {}
      /\ {d \in {"DEFINITION"} : ~(/\ {"SOURCE", "MAPPING", "CHART"} \subseteq Vouched(p)
                                   /\ lacks \cap {"DEFINITION", "CONTRADICTED"} = {})} = {}
      /\ {d \in {"REVISION"} : ~(trusted /\ RevisionVerified(p, before))} = {}
    BY Zenon DEF Unverified
<1>2. /\ trusted /\ member /\ "CONTROL" \in Vouched(p)
      /\ lacks \cap {"EXCLUDED", "MISMATCH", "UNOBSERVED"} = {} /\ "PERIOD" \notin lacks
      /\ {"SOURCE", "MAPPING", "CHART"} \subseteq Vouched(p)
      /\ lacks \cap {"DEFINITION", "CONTRADICTED"} = {} /\ RevisionVerified(p, before)
    BY <1>1
<1>3. "REFERENCE" \notin lacks
    BY <1>2 DEF RevisionVerified
<1>4. lacks \subseteq Lacking
    BY MonthAssumption DEF MonthFacts
<1>5. lacks = {}
    BY <1>2, <1>3, <1>4 DEF Lacking
<1>6. Vouched(p) = Part
    BY <1>2 DEF Vouched, Part
<1> QED  BY <1>2, <1>5, <1>6

\* The only original there is.
LEMMA OnlyRoot ==
    ASSUME IsFiniteSet(imported), NEW f, NEW p \in Roots(f), Cardinality(Roots(f)) = 1
    PROVE  Roots(f) = {p}
<1>1. Roots(f) \subseteq imported
    BY DEF Roots
<1>2. IsFiniteSet(Roots(f))
    BY <1>1, FS_Subset
<1>3. \E x : Roots(f) = {x}
    BY SMTT(30), <1>2, FS_Singleton
<1> QED  BY <1>3

\* A package qualifies after the rows before it: it is the first, the only original,
\* or names the last; it is none of them.
LEMMA Succeeds ==
    ASSUME MonthInv, NEW p \in Months \cap imported,
           Unverified(p, monthly[Month[p].family]) = {}
    PROVE  Revised(Append(monthly[Month[p].family], MonthlyBasis(p)))
<1> DEFINE f == Month[p].family
           owners == monthly[f]
           n == Len(owners)
           y == MonthlyBasis(p)
           new == Append(owners, y)
<1>1. f \in Family
    BY MonthAssumption DEF MonthFacts
<1>2. owners \in Seq(MonthlyRow) /\ Revised(owners) /\ n \in Nat /\ DOMAIN owners = 1 .. n
    BY <1>1 DEF MonthInv
<1>3. Month[p].lacks = {} /\ Vouched(p) = Part /\ RevisionVerified(p, owners)
    BY Verified
<1>4. y.package = p /\ y.vouched = Part /\ y.roots = Roots(f) /\ y \in MonthlyRow
    BY <1>3 DEF MonthlyBasis, MonthlyRow, Roots
<1> HIDE DEF y
<1>5. /\ DOMAIN new = 1 .. n + 1 /\ new[n + 1] = y
      /\ \A i \in 1 .. n : new[i] = owners[i] /\ owners[i].package \in Months
    <2>1. \A i \in 1 .. n : owners[i] \in MonthlyRow
        BY <1>2
    <2>2. \A i \in 1 .. n : owners[i].package \in Months
        BY <2>1 DEF MonthlyRow
    <2> HIDE DEF f
    <2>3. new \in Seq(MonthlyRow) /\ Len(new) = n + 1 /\ new[n + 1] = y /\ \A i \in 1 .. n : new[i] = owners[i]
        BY <1>2, <1>4
    <2> QED  BY <1>2, <2>2, <2>3
<1>6. n = 0 => y.roots = {p} /\ Month[p].from = "NONE"
    <2>1. ASSUME n = 0 PROVE y.roots = {p} /\ Month[p].from = "NONE"
        <3>1. owners = <<>>
            BY <1>2, <2>1
        <3>2. Month[p].kind = "ORIGINAL" /\ Month[p].from = "NONE" /\ Cardinality(Roots(f)) = 1
            BY <1>3, <3>1 DEF RevisionVerified
        <3>3. p \in Roots(f)
            BY <3>2 DEF Roots
        <3>4. Roots(f) = {p}
            BY <3>2, <3>3, OnlyRoot DEF MonthInv
        <3> QED  BY <1>4, <3>2, <3>4
    <2> QED  BY <2>1
<1>7. n >= 1 => Month[p].from = owners[n].package
    <2>1. n >= 1 => owners # <<>>
        BY <1>2
    <2> QED  BY <1>3, <2>1 DEF RevisionVerified, Last
<1>8. \A i \in 1 .. n : owners[i].package # p
    <2>1. ASSUME NEW i \in 1 .. n, owners[i].package = p PROVE FALSE
        <3>1. n \in 1 .. n /\ Month[p].from = owners[n].package /\ owners[n].package \in Months
            BY <1>2, <1>5, <1>7
        <3>2. CASE i = 1
            <4>1. Month[p].from = "NONE"
                BY <1>2, <2>1, <3>2 DEF Revised
            <4> QED  BY <3>1, <4>1, MonthAssumption
        <3>3. CASE i # 1
            <4>1. i - 1 \in 1 .. n /\ i = (i - 1) + 1 /\ i - 1 < n
                BY SMTT(30), <1>2, <3>3
            <4>2. \A h \in 1 .. n : i = h + 1 => Month[owners[i].package].from = owners[h].package
                BY <1>2 DEF Revised
            <4>a. Month[p].from = owners[i - 1].package
                BY SMTT(30), <2>1, <4>1, <4>2
            <4>3. owners[i - 1].package # owners[n].package
                BY SMTT(30), <1>2, <3>1, <4>1 DEF Revised
            <4> QED  BY <3>1, <4>a, <4>3
        <3> QED  BY <3>2, <3>3
    <2> QED  BY <2>1
<1> HIDE DEF owners, new
<1>9. ASSUME NEW i \in 1 .. n + 1, NEW j \in 1 .. n + 1
      PROVE  /\ Month[new[i].package].lacks = {} /\ new[i].vouched = Part
             /\ i < j => new[i].package # new[j].package
             /\ i = 1 => new[i].roots = {new[i].package} /\ Month[new[i].package].from = "NONE"
             /\ j = i + 1 => Month[new[j].package].from = new[i].package
    <2>1. CASE i \in 1 .. n /\ j \in 1 .. n
        <3>1. /\ Month[owners[i].package].lacks = {} /\ owners[i].vouched = Part
              /\ i < j => owners[i].package # owners[j].package
              /\ i = 1 => owners[i].roots = {owners[i].package} /\ Month[owners[i].package].from = "NONE"
              /\ j = i + 1 => Month[owners[j].package].from = owners[i].package
            BY <1>2, <2>1 DEF Revised
        <3>2. new[i] = owners[i] /\ new[j] = owners[j]
            BY <1>5, <2>1
        <3> QED  BY <3>1, <3>2
    <2>2. CASE i \in 1 .. n /\ j = n + 1
        <3>1. /\ Month[owners[i].package].lacks = {} /\ owners[i].vouched = Part
              /\ i = 1 => owners[i].roots = {owners[i].package} /\ Month[owners[i].package].from = "NONE"
            BY <1>2, <2>2 DEF Revised
        <3>2. new[j] = y /\ new[i] = owners[i]
            BY <1>5, <2>2
        <3>3. j = i + 1 => Month[p].from = owners[i].package
            BY <1>2, <1>7, <2>2
        <3> QED  BY <1>4, <1>8, <2>2, <3>1, <3>2, <3>3
    <2>3. CASE i = n + 1
        BY <1>2, <1>3, <1>4, <1>5, <1>6, <2>3
    <2> QED  BY <1>2, <2>1, <2>2, <2>3
<1> QED  BY <1>5, <1>9 DEF Revised, new, owners, y

\* The tables of components and margins keep their types.
LEMMA BindingTyped ==
    ASSUME NEW d \in Proofs, NEW before PROVE BindingRowOf(d, before) \in BindingRow
<1>1. BindingReasons(d, before) \in SUBSET Reason
    BY DEF BindingReasons, Reason
<1> QED  BY <1>1 DEF BindingRowOf, BindingRow

\* Nothing is imported.
LEMMA MonthsInit == MonthInit => MonthInv
<1> SUFFICES ASSUME MonthInit PROVE MonthInv
    OBVIOUS
<1>1. monthly = [f \in Family |-> <<>>]
    BY DEF MonthInit
<1>2. monthly \in [Family -> Seq(MonthlyRow)] /\ \A f \in Family : Revised(monthly[f])
    BY <1>1 DEF Revised
<1>3. IsFiniteSet(imported)
    BY FS_EmptySet DEF MonthInit
<1> QED  BY <1>1, <1>2, <1>3 DEF MonthInit, MonthInv, MonthTypeOK

\* Every step keeps the owners of a family a chain of named revisions.
LEMMA MonthsNext == MonthInv /\ [MonthNext]_monthVars => MonthInv'
<1> SUFFICES ASSUME MonthInv, [MonthNext]_monthVars PROVE MonthInv'
    OBVIOUS
<1>1. MonthTypeOK /\ IsFiniteSet(imported)
    BY DEF MonthInv
<1>2. ASSUME NEW x, x \in Months \cup Proofs, imported' = imported \cup {x},
             UNCHANGED <<doubted, monthly, bindings, margins>>
      PROVE  MonthInv'
    <2>1. IsFiniteSet(imported')
        BY <1>1, <1>2, FS_AddElement
    <2> QED  BY <1>2, <2>1 DEF MonthInv, MonthTypeOK
<1>3. ASSUME NEW p \in Months \ imported, ImportMonth(p) PROVE MonthInv'
    BY <1>2, <1>3 DEF ImportMonth
<1>4. ASSUME NEW d \in Proofs \ imported, ImportProof(d) PROVE MonthInv'
    BY <1>2, <1>4 DEF ImportProof
<1>5. ASSUME NEW x \in Evidenced, ChangeVouching(x) PROVE MonthInv'
    <2>1. doubted' \subseteq Evidenced
        BY <1>1, <1>5 DEF ChangeVouching, MonthTypeOK
    <2> QED  BY <1>5, <2>1 DEF ChangeVouching, MonthInv, MonthTypeOK
<1>6. ASSUME NEW p \in Months \cap imported, QualifyMonthly(p) PROVE MonthInv'
    <2> DEFINE f == Month[p].family
    <2>1. f \in Family
        BY MonthAssumption DEF MonthFacts
    <2>2. /\ monthly' = [monthly EXCEPT ![f] = Append(monthly[f], MonthlyBasis(p))]
          /\ UNCHANGED <<imported, doubted, bindings, margins>>
          /\ Unverified(p, monthly[f]) = {}
        BY <1>6 DEF QualifyMonthly, Qualifies
    <2>3. Revised(Append(monthly[f], MonthlyBasis(p)))
        BY <2>2, Succeeds
    <2>4. MonthlyBasis(p) \in MonthlyRow
        BY DEF MonthlyBasis, MonthlyRow, Vouched, Roots
    <2>5. monthly[f] \in Seq(MonthlyRow) /\ monthly \in [Family -> Seq(MonthlyRow)]
        BY <2>1 DEF MonthInv
    <2> HIDE DEF f
    <2>6. Append(monthly[f], MonthlyBasis(p)) \in Seq(MonthlyRow)
        BY <2>4, <2>5
    <2>7. monthly' \in [Family -> Seq(MonthlyRow)] /\ \A g \in Family : Revised(monthly'[g])
        BY <2>1, <2>2, <2>3, <2>5, <2>6 DEF MonthInv
    <2> QED  BY <1>1, <2>2, <2>7 DEF MonthInv, MonthTypeOK
<1>7. ASSUME NEW d \in Proofs, Bind(d) PROVE MonthInv'
    <2>1. bindings' = Append(bindings, BindingRowOf(d, bindings)) /\ UNCHANGED <<imported, doubted, monthly, margins>>
        BY <1>7 DEF Bind
    <2>2. bindings' \in Seq(BindingRow)
        BY <1>1, <2>1, BindingTyped DEF MonthTypeOK
    <2> QED  BY <2>1, <2>2 DEF MonthInv, MonthTypeOK
<1>8. ASSUME NEW k \in DOMAIN bindings, QualifyMargin(k) PROVE MonthInv'
    <2>1. margins' = Append(margins, [binding |-> k, reasons |-> MarginReasons(k)])
          /\ UNCHANGED <<imported, doubted, monthly, bindings>>
        BY <1>8 DEF QualifyMargin
    <2>2. bindings[k] \in BindingRow /\ k \in Nat \ {0}
        BY <1>1 DEF MonthTypeOK
    <2>3. MarginReasons(k) \in SUBSET (Reason \cup {"NON_TERMINATING", "POSITIVE_REVENUE"})
        <3>1. bindings[k].reasons \in SUBSET Reason
            BY <2>2 DEF BindingRow
        <3>2. Percentage(bindings[k].proof) \in SUBSET {"NON_TERMINATING", "POSITIVE_REVENUE"}
            BY DEF Percentage
        <3> QED  BY <3>1, <3>2 DEF MarginReasons
    <2>4. margins' \in Seq(MarginRow)
        BY <1>1, <2>1, <2>2, <2>3 DEF MonthTypeOK, MarginRow
    <2> QED  BY <2>1, <2>4 DEF MonthInv, MonthTypeOK
<1>9. CASE UNCHANGED monthVars
    BY <1>9 DEF monthVars, MonthInv, MonthTypeOK
<1> QED  BY <1>3, <1>4, <1>5, <1>6, <1>7, <1>8, <1>9 DEF MonthNext

\* The inductive invariant of the monthly figures.
LEMMA MonthsInvariance == MonthSpec => []MonthInv
BY MonthsInit, MonthsNext, PTL DEF MonthSpec

\* Owners, bindings and margins keep the shape of their contracts.
THEOREM MonthTypeCorrect == MonthSpec => []MonthTypeOK
<1>1. MonthInv => MonthTypeOK
    BY DEF MonthInv
<1> QED  BY <1>1, MonthsInvariance, PTL

\* The owner that reads as current is the latest, vouched for in every part, and if it
\* is an original it is the only one.
LEMMA CurrentOwner ==
    ASSUME MonthInv, NEW p \in Months, MonthlyCurrent(p)
    PROVE  /\ Last(monthly[Month[p].family]).package = p
           /\ \A part \in Part : <<p, part>> \notin doubted
           /\ Month[p].kind = "ORIGINAL" => Roots(Month[p].family) = {p}
<1> DEFINE f == Month[p].family
           owners == monthly[f]
           n == Len(owners)
           y == MonthlyBasis(p)
<1>1. f \in Family
    BY MonthAssumption DEF MonthFacts
<1>2. owners \in Seq(MonthlyRow) /\ Revised(owners) /\ owners # <<>> /\ Last(owners) = y
      /\ Qualifies(p, Front(owners)) /\ ~ IsSuffix(<<y>>, Front(owners))
    BY <1>1 DEF MonthInv, MonthlyCurrent
<1>3. n \in Nat /\ n >= 1 /\ DOMAIN owners = 1 .. n /\ owners[n] = y
    BY <1>2 DEF Last
<1>4. y.package = p /\ y.vouched = Vouched(p) /\ y.roots = Roots(f)
    BY DEF MonthlyBasis
<1>5. Unverified(p, Front(owners)) = {}
    BY <1>2 DEF Qualifies
<1>6. Vouched(p) = Part /\ RevisionVerified(p, Front(owners))
    BY <1>5, Verified
<1>7. \A part \in Part : <<p, part>> \notin doubted
    BY <1>6 DEF Vouched
<1> HIDE DEF y
<1>8. ASSUME Month[p].kind = "ORIGINAL" PROVE Roots(f) = {p}
    <2>1. Front(owners) = <<>>
        BY <1>6, <1>8 DEF RevisionVerified
    <2>2. Len(Front(owners)) = n - 1
        BY <1>2, <1>3 DEF Front
    <2>3. n = 1
        BY <1>3, <2>1, <2>2
    <2>4. y.roots = {y.package}
        BY SMTT(30), <1>2, <1>3, <2>3 DEF Revised
    <2> QED  BY <1>4, <2>4
<1> QED  BY <1>2, <1>4, <1>7, <1>8

\* A current, qualified margin is warranted by what is vouched for now.
LEMMA MarginsWarranted == MonthInv => MarginsAreWarranted
<1> SUFFICES ASSUME MonthInv, NEW i \in DOMAIN margins, MarginCurrent(i), margins[i].reasons = {}
             PROVE  LET d == bindings[margins[i].binding].proof IN
                    /\ \A p \in Components(d) :
                        /\ Last(monthly[Month[p].family]).package = p
                        /\ \A part \in Part : <<p, part>> \notin doubted
                        /\ Month[p].kind = "ORIGINAL" => Roots(Month[p].family) = {p}
                    /\ <<d, "PROOF">> \notin doubted /\ Proof[d].exact
                    /\ Month[Proof[d].revenue].revenue = Month[Proof[d].contribution].revenue
                    /\ Month[Proof[d].revenue].revenue > 0
    BY DEF MarginsAreWarranted
<1> DEFINE k == margins[i].binding
           d == bindings[k].proof
<1>0. margins[i] \in MarginRow
    BY DEF MonthInv, MonthTypeOK
<1>1. k \in Nat \ {0} /\ BindingCurrent(k) /\ MarginReasons(k) = {}
    BY <1>0 DEF MarginRow, MarginCurrent
<1>2. k = Len(bindings) /\ bindings \in Seq(BindingRow)
    BY <1>1 DEF BindingCurrent, MonthInv, MonthTypeOK
<1>3. bindings[k] \in BindingRow
    BY <1>1, <1>2
<1> HIDE DEF k
<1>4. d \in Proofs
    BY <1>3 DEF BindingRow
<1>5. ComponentsCurrent(d) /\ bindings[k] = BindingRowOf(d, Front(bindings))
    BY <1>1 DEF BindingCurrent
<1>6. bindings[k].reasons = {} /\ Percentage(d) = {}
    BY <1>1 DEF MarginReasons
<1>7. BindingReasons(d, Front(bindings)) = {}
    BY <1>5, <1>6 DEF BindingRowOf
<1> HIDE DEF d
<1>8. /\ {r \in {"AUTHORITY"} : <<d, "PROOF">> \in doubted} = {}
      /\ {r \in {"RELATION"} : ~Proof[d].exact} = {}
      /\ {r \in {"AMOUNTS"} : Month[Proof[d].revenue].revenue # Month[Proof[d].contribution].revenue} = {}
    BY <1>7, Zenon DEF BindingReasons
<1>9. /\ <<d, "PROOF">> \notin doubted /\ Proof[d].exact
      /\ Month[Proof[d].revenue].revenue = Month[Proof[d].contribution].revenue
    BY <1>8
<1>10. Month[Proof[d].revenue].revenue \in Int /\ Components(d) \subseteq Months
    BY <1>4, MonthAssumption DEF ProofFacts, MonthFacts, Components
<1>11. Month[Proof[d].revenue].revenue > 0
    BY <1>6, <1>10 DEF Percentage
<1>12. \A p \in Components(d) : MonthlyCurrent(p)
    BY <1>5 DEF ComponentsCurrent
<1>13. \A p \in Components(d) :
        /\ Last(monthly[Month[p].family]).package = p
        /\ \A part \in Part : <<p, part>> \notin doubted
        /\ Month[p].kind = "ORIGINAL" => Roots(Month[p].family) = {p}
    BY <1>10, <1>12, CurrentOwner
<1> QED  BY Zenon, <1>9, <1>11, <1>13 DEF d, k

\* However documents arrive, lapse and return: a month's figure is revised only by
\* documents that name the ones they replace, and a margin that reads as current and
\* qualified relates the latest figures, of one positive revenue, by an exact proof,
\* with every part vouched for now (semantics.py:324-343, margin.py:123, :231).
THEOREM MonthWarranted == MonthSpec => []MonthIsWarranted
<1>1. ASSUME MonthInv PROVE OwnersAreRevised
    <2>1. ASSUME NEW f \in Family, NEW i \in DOMAIN monthly[f], NEW j \in DOMAIN monthly[f]
          PROVE  LET x == monthly[f][i]  y == monthly[f][j] IN
                 /\ Month[x.package].lacks = {} /\ x.vouched = Part
                 /\ i < j => x.package # y.package
                 /\ i = 1 => x.roots = {x.package}
                 /\ j = i + 1 => Month[y.package].from = x.package
        <3>1. Revised(monthly[f])
            BY <1>1 DEF MonthInv
        <3> QED  BY <3>1 DEF Revised
    <2> QED  BY <2>1 DEF OwnersAreRevised
<1>2. MonthInv => MonthIsWarranted
    BY <1>1, MarginsWarranted DEF MonthIsWarranted
<1> QED  BY <1>2, MonthsInvariance, PTL

-----------------------------------------------------------------------------
(* Measurements *)

\* A binding carries the value its context was derived from, one step from its parent.
BindingOk(b) ==
    LET y == contextBindings[b]  x == contexts[y.context] IN
    /\ y.context \in DOMAIN contexts /\ y.parent \in 0 .. Len(contextBindings) /\ y.parent < b
    /\ Live(y.row) /\ y.row.value = x.row.value
    /\ y.parent = 0 => y.owner = x.origin
    /\ y.parent # 0 => /\ y.owner \notin Lines
                       /\ Slot[y.owner].from = contextBindings[y.parent].owner

RevisionOk(c) ==
    LET old == contexts[c].supersedes IN
    old # 0 => /\ old < c
               /\ Slot[contexts[old].origin].family = Slot[contexts[c].origin].family
               /\ Slot[contexts[old].origin].period = Slot[contexts[c].origin].period

MeasurementInv ==
    /\ MeasurementTypeOK
    /\ \A s \in Lines : rows[s] = Absent \/ Live(rows[s])
    /\ \A b \in DOMAIN contextBindings : BindingOk(b)
    /\ \A a, b \in DOMAIN contextBindings :
        contextBindings[a].owner = contextBindings[b].owner /\ contextBindings[a].row = contextBindings[b].row => a = b
    /\ \A c \in DOMAIN contexts : RevisionOk(c)

\* What is reached from each binding by its parents, without recursion.
Closed(T) == \A y \in T : contextBindings[y].parent # 0 => contextBindings[y].parent \in T
Reached ==
    [b \in 0 .. Len(contextBindings) |->
        {x \in DOMAIN contextBindings : b # 0 /\ \A T \in SUBSET DOMAIN contextBindings : Closed(T) /\ b \in T => x \in T}]

\* It satisfies the equation of the chain.
LEMMA ReachedIsChain ==
    ASSUME MeasurementInv
    PROVE  Reached = [b \in 0 .. Len(contextBindings) |->
                        IF b = 0 THEN {} ELSE {b} \cup Reached[contextBindings[b].parent]]
<1> DEFINE n == Len(contextBindings)
           D == DOMAIN contextBindings
<1>1. n \in Nat /\ D = 1 .. n
    BY DEF MeasurementInv, MeasurementTypeOK
<1>2. \A b \in D : contextBindings[b].parent \in 0 .. n
    BY DEF MeasurementInv, BindingOk
<1>3. \A b \in 0 .. n : Reached[b] = {x \in D : b # 0 /\ \A T \in SUBSET D : Closed(T) /\ b \in T => x \in T}
    BY DEF Reached
<1>4. ASSUME NEW b \in 0 .. n
      PROVE  Reached[b] = IF b = 0 THEN {} ELSE {b} \cup Reached[contextBindings[b].parent]
    <2>1. CASE b = 0
        BY <1>3, <2>1
    <2>2. CASE b # 0
        <3> DEFINE p == contextBindings[b].parent
        <3>1. b \in D /\ p \in 0 .. n
            BY <1>1, <1>2, <2>2
        <3>2. b \in Reached[b]
            BY <1>3, <2>2, <3>1
        <3>3. ASSUME NEW x \in Reached[p] PROVE x \in Reached[b]
            <4>1. p # 0 /\ x \in D
                BY <1>3, <3>1
            <4>2. ASSUME NEW T \in SUBSET D, Closed(T), b \in T PROVE x \in T
                <5>1. p \in T
                    BY <4>1, <4>2 DEF Closed
                <5> QED  BY <1>3, <3>1, <4>2, <5>1
            <4> QED  BY <1>3, <2>2, <4>1, <4>2
        <3>4. ASSUME NEW x \in Reached[b], x # b PROVE x \in Reached[p]
            <4>1. x \in D /\ \A T \in SUBSET D : Closed(T) /\ b \in T => x \in T
                BY <1>3
            <4>2. p # 0
                <5>1. SUFFICES ASSUME p = 0 PROVE FALSE
                    OBVIOUS
                <5>2. Closed({b})
                    BY <5>1 DEF Closed
                <5> QED  BY <3>1, <3>4, <4>1, <5>2
            <4>3. ASSUME NEW T \in SUBSET D, Closed(T), p \in T PROVE x \in T
                <5>1. Closed(T \cup {b})
                    BY <4>3 DEF Closed
                <5>2. x \in T \cup {b}
                    BY <3>1, <4>1, <5>1
                <5> QED  BY <3>4, <5>2
            <4> QED  BY <1>3, <3>1, <4>1, <4>2, <4>3
        <3> QED  BY <2>2, <3>2, <3>3, <3>4
    <2> QED  BY <2>1, <2>2
<1> DEFINE f == [b \in 0 .. n |-> IF b = 0 THEN {} ELSE {b} \cup Reached[contextBindings[b].parent]]
<1>5. \A b \in 0 .. n : Reached[b] = f[b]
    BY <1>4
<1>6. Reached = [b \in 0 .. n |-> Reached[b]]
    BY DEF Reached
<1>7. f = [b \in 0 .. n |-> f[b]]
    OBVIOUS
<1> HIDE DEF f
<1>8. Reached = f
    BY <1>5, <1>6, <1>7
<1> QED  BY <1>8 DEF f

\* The chain of a binding is the binding and the chain of its parent.
LEMMA ChainIs ==
    ASSUME MeasurementInv
    PROVE  \A b \in 0 .. Len(contextBindings) :
                Chain[b] = IF b = 0 THEN {} ELSE {b} \cup Chain[contextBindings[b].parent]
<1> DEFINE Eq(f) == f = [b \in 0 .. Len(contextBindings) |-> IF b = 0 THEN {} ELSE {b} \cup f[contextBindings[b].parent]]
<1>1. Eq(Reached)
    BY ReachedIsChain
<1>2. Chain = CHOOSE f : Eq(f)
    BY DEF Chain
<1> HIDE DEF Eq
<1>3. Eq(Chain)
    BY <1>1, <1>2
<1> QED  BY <1>3 DEF Eq

\* It is made of bindings, the one it starts from among them.
LEMMA ChainBindings ==
    ASSUME MeasurementInv, NEW b \in DOMAIN contextBindings
    PROVE  b \in Chain[b] /\ Chain[b] \subseteq DOMAIN contextBindings
<1> DEFINE n == Len(contextBindings)
           Bad == {k \in 0 .. n : ~ (Chain[k] \subseteq DOMAIN contextBindings)}
<1>1. n \in Nat /\ DOMAIN contextBindings = 1 .. n
    BY DEF MeasurementInv, MeasurementTypeOK
<1>2. \A k \in 0 .. n : Chain[k] = IF k = 0 THEN {} ELSE {k} \cup Chain[contextBindings[k].parent]
    BY ChainIs
<1>3. \A k \in 1 .. n : contextBindings[k].parent \in 0 .. n /\ contextBindings[k].parent < k
    BY <1>1 DEF MeasurementInv, BindingOk
<1>4. Bad = {}
    <2>1. SUFFICES ASSUME Bad # {} PROVE FALSE
        OBVIOUS
    <2>2. PICK m \in Bad : \A k \in Bad : m <= k
        <3>1. \A m \in Bad : m \in 0 .. n
            OBVIOUS
        <3> HIDE DEF Bad
        <3> QED  BY <1>1, <2>1, <3>1, LeastNatural
    <2>3. m # 0 /\ m \in 1 .. n
        <3>1. m \in 0 .. n /\ ~ (Chain[m] \subseteq DOMAIN contextBindings)
            OBVIOUS
        <3>2. Chain[0] = {}
            <4>1. 0 \in 0 .. n
                BY <1>1
            <4> QED  BY <1>2, <4>1
        <3>3. Chain[0] \subseteq DOMAIN contextBindings
            BY <3>2
        <3> QED  BY <1>1, <3>1, <3>3
    <2>4. contextBindings[m].parent \notin Bad
        BY <1>3, <2>2, <2>3
    <2>5. Chain[contextBindings[m].parent] \subseteq DOMAIN contextBindings
        BY <1>3, <2>3, <2>4
    <2> QED  BY <1>1, <1>2, <2>2, <2>3, <2>5
<1>5. b \in 0 .. n /\ b # 0
    BY <1>1
<1> QED  BY <1>2, <1>4, <1>5

\* A binding of a row that is not bound as it is, to a context that has its value, keeps
\* the invariant, whether the context is one of those there or added with it.
LEMMA AddBinding ==
    ASSUME MeasurementInv, UNCHANGED <<rows, files>>,
           NEW y \in ContextBinding, contextBindings' = Append(contextBindings, y), Bound(y.owner) = {},
           contexts' \in Seq(ContextRow), Len(contexts) <= Len(contexts'),
           \A c \in 1 .. Len(contexts) : contexts'[c] = contexts[c],
           \A c \in DOMAIN contexts' : c > Len(contexts) =>
                LET old == contexts'[c].supersedes IN
                old # 0 => /\ old \in DOMAIN contexts
                           /\ Slot[contexts[old].origin].family = Slot[contexts'[c].origin].family
                           /\ Slot[contexts[old].origin].period = Slot[contexts'[c].origin].period,
           y.context \in DOMAIN contexts', y.parent \in 0 .. Len(contextBindings),
           y.row = rows[y.owner], Live(y.row), y.row.value = contexts'[y.context].row.value,
           y.parent = 0 => y.owner = contexts'[y.context].origin,
           y.parent # 0 => y.owner \notin Lines /\ Slot[y.owner].from = contextBindings[y.parent].owner
    PROVE  MeasurementInv'
<1> DEFINE n == Len(contextBindings)
           m == Len(contexts)
<1>1. /\ n \in Nat /\ DOMAIN contextBindings = 1 .. n /\ contextBindings \in Seq(ContextBinding)
      /\ m \in Nat /\ DOMAIN contexts = 1 .. m /\ contexts \in Seq(ContextRow)
    BY DEF MeasurementInv, MeasurementTypeOK
<1>2. /\ contextBindings' \in Seq(ContextBinding) /\ DOMAIN contextBindings' = 1 .. n + 1
      /\ Len(contextBindings') = n + 1 /\ contextBindings'[n + 1] = y
      /\ \A b \in 1 .. n : contextBindings'[b] = contextBindings[b]
    BY <1>1
<1>3. DOMAIN contexts' = 1 .. Len(contexts') /\ Len(contexts') \in Nat
    OBVIOUS
<1>4. MeasurementTypeOK'
    BY <1>2 DEF MeasurementInv, MeasurementTypeOK
<1>5. \A s \in Lines : rows'[s] = Absent \/ Live(rows'[s])
    BY DEF MeasurementInv
<1>6. ASSUME NEW b \in 1 .. n + 1 PROVE BindingOk(b)'
    <2>1. CASE b = n + 1
        <3>1. y.parent \in 0 .. n + 1 /\ y.parent < n + 1
            BY <1>1
        <3>2. y.parent # 0 => contextBindings'[y.parent].owner = contextBindings[y.parent].owner
            BY <1>1, <1>2
        <3> QED  BY <1>2, <2>1, <3>1, <3>2 DEF BindingOk
    <2>2. CASE b \in 1 .. n
        <3> DEFINE x == contextBindings[b]
        <3>1. BindingOk(b)
            BY <1>1, <2>2 DEF MeasurementInv
        <3>2. contextBindings'[b] = x /\ x.context \in 1 .. m /\ x.parent \in 0 .. n /\ x.parent < b
            BY <1>1, <1>2, <2>2, <3>1 DEF BindingOk
        <3>3. x.context \in DOMAIN contexts' /\ contexts'[x.context] = contexts[x.context] /\ x.parent \in 0 .. n + 1
            BY <1>1, <1>3, <3>2
        <3>4. x.parent # 0 => contextBindings'[x.parent].owner = contextBindings[x.parent].owner
            BY <1>1, <1>2, <3>2
        <3> QED  BY <1>2, <3>1, <3>2, <3>3, <3>4 DEF BindingOk
    <2> QED  BY <1>1, <2>1, <2>2
<1>7. ASSUME NEW a \in 1 .. n + 1, NEW b \in 1 .. n + 1,
             contextBindings'[a].owner = contextBindings'[b].owner, contextBindings'[a].row = contextBindings'[b].row
      PROVE  a = b
    <2>1. \A k \in 1 .. n : ~ (contextBindings[k].owner = y.owner /\ contextBindings[k].row = y.row)
        BY <1>1 DEF Bound
    <2>2. CASE a \in 1 .. n /\ b \in 1 .. n
        <3>1. contextBindings'[a] = contextBindings[a] /\ contextBindings'[b] = contextBindings[b]
            BY <1>2, <2>2
        <3>2. contextBindings[a].owner = contextBindings[b].owner /\ contextBindings[a].row = contextBindings[b].row
            BY <1>7, <3>1
        <3>3. a \in DOMAIN contextBindings /\ b \in DOMAIN contextBindings
            BY <1>1, <2>2
        <3> QED  BY <3>2, <3>3, Zenon DEF MeasurementInv
    <2>3. CASE a = n + 1 /\ b \in 1 .. n
        BY <1>2, <1>7, <2>1, <2>3
    <2>4. CASE a \in 1 .. n /\ b = n + 1
        BY <1>2, <1>7, <2>1, <2>4
    <2> QED  BY <1>1, <2>2, <2>3, <2>4
<1>8. ASSUME NEW c \in 1 .. Len(contexts') PROVE RevisionOk(c)'
    <2> DEFINE old == contexts'[c].supersedes
    <2>1. CASE c \in 1 .. m
        <3>1. contexts'[c] = contexts[c] /\ contexts[c] \in ContextRow /\ RevisionOk(c)
            BY <1>1, <2>1 DEF MeasurementInv
        <3>2. old \in Nat
            BY <3>1, SlotAssumption DEF ContextRow
        <3>3. old # 0 => old \in 1 .. m /\ contexts'[old] = contexts[old]
            BY <1>1, <2>1, <3>1, <3>2 DEF RevisionOk
        <3> QED  BY <3>1, <3>3 DEF RevisionOk
    <2>2. CASE ~ (c \in 1 .. m)
        <3>1. c > m
            BY <1>1, <1>3, <2>2
        <3>2. old # 0 => /\ old \in 1 .. m /\ contexts'[old] = contexts[old]
                         /\ Slot[contexts[old].origin].family = Slot[contexts'[c].origin].family
                         /\ Slot[contexts[old].origin].period = Slot[contexts'[c].origin].period
            BY <1>1, <1>3, <3>1
        <3> HIDE DEF old
        <3>3. old # 0 => old < c
            BY SMTT(30), <1>1, <1>3, <3>1, <3>2
        <3> QED  BY <3>2, <3>3 DEF RevisionOk, old
    <2> QED  BY <2>1, <2>2
<1> QED  BY <1>2, <1>3, <1>4, <1>5, <1>6, <1>7, <1>8 DEF MeasurementInv

\* Deriving a context and binding its row keeps the invariant.
LEMMA PersistInv ==
    ASSUME MeasurementInv, Len(contexts) < MaxContexts, Len(contextBindings) < MaxBindings,
           NEW run \in Runs, NEW s \in Slots, Owning(s), Live(rows[s]), NEW c \in 0 .. Len(contexts),
           c # 0 => MayRevise(s, c), Persist(s, run, c), UNCHANGED <<rows, files>>
    PROVE  MeasurementInv'
<1> DEFINE n == Len(contextBindings)
           m == Len(contexts)
           x == ContextOf(s, run, c)
           y == BindingOf(s, run, m + 1, 0)
<1>1. /\ n \in Nat /\ m \in Nat /\ DOMAIN contexts = 1 .. m /\ contexts \in Seq(ContextRow)
    BY DEF MeasurementInv, MeasurementTypeOK
<1>2. rows[s] \in Content
    BY DEF Owning, MeasurementInv, MeasurementTypeOK
<1>3. x \in ContextRow /\ x.origin = s /\ x.row = rows[s] /\ x.supersedes = c
    <2>1. c \in 0 .. MaxContexts
        BY <1>1, SlotAssumption
    <2>2. (s \in Lines /\ files[s] = "RETAINED") \in BOOLEAN
        OBVIOUS
    <2> QED  BY <1>2, <2>1, <2>2 DEF ContextOf, ContextRow
<1>4. y \in ContextBinding /\ y.owner = s /\ y.row = rows[s] /\ y.context = m + 1 /\ y.parent = 0
    <2>1. m + 1 \in 1 .. MaxContexts /\ 0 \in 0 .. MaxBindings
        BY <1>1, SlotAssumption
    <2> QED  BY <1>2, <2>1 DEF BindingOf, ContextBinding
<1>5. contexts' = Append(contexts, x) /\ contextBindings' = Append(contextBindings, y) /\ Bound(s) = {}
    BY DEF Persist, MayBind
<1> HIDE DEF x, y
<1>6. /\ contexts' \in Seq(ContextRow) /\ Len(contexts') = m + 1 /\ DOMAIN contexts' = 1 .. m + 1
      /\ contexts'[m + 1] = x /\ \A k \in 1 .. m : contexts'[k] = contexts[k]
    BY <1>1, <1>3, <1>5
<1>7. ASSUME NEW k \in DOMAIN contexts', k > m, contexts'[k].supersedes # 0
      PROVE  /\ contexts'[k].supersedes \in DOMAIN contexts
             /\ Slot[contexts[contexts'[k].supersedes].origin].family = Slot[contexts'[k].origin].family
             /\ Slot[contexts[contexts'[k].supersedes].origin].period = Slot[contexts'[k].origin].period
    <2>1. k = m + 1
        BY <1>1, <1>6, <1>7
    <2>2. contexts'[k].supersedes = c /\ contexts'[k].origin = s /\ c # 0
        BY <1>3, <1>6, <1>7, <2>1
    <2> QED  BY <1>1, <2>2 DEF MayRevise
<1>8. y.context \in DOMAIN contexts' /\ y.parent \in 0 .. n
    BY <1>1, <1>4, <1>6
<1>9. y.row = rows[y.owner] /\ Live(y.row) /\ y.row.value = contexts'[y.context].row.value
      /\ y.owner = contexts'[y.context].origin
    BY <1>3, <1>4, <1>6
<1>10. \A k \in DOMAIN contexts' : k > Len(contexts) =>
            LET old == contexts'[k].supersedes IN
            old # 0 => /\ old \in DOMAIN contexts
                       /\ Slot[contexts[old].origin].family = Slot[contexts'[k].origin].family
                       /\ Slot[contexts[old].origin].period = Slot[contexts'[k].origin].period
    BY <1>7
<1>11. Len(contexts) <= Len(contexts') /\ \A k \in 1 .. Len(contexts) : contexts'[k] = contexts[k]
    BY <1>1, <1>6
<1>12. y.parent = 0 /\ Bound(y.owner) = {} /\ contexts' \in Seq(ContextRow)
    BY <1>4, <1>5, <1>6
<1> QED  BY <1>4, <1>5, <1>8, <1>9, <1>10, <1>11, <1>12, AddBinding

\* So does carrying a context to a row derived from a bound one.
LEMMA PropagateInv ==
    ASSUME MeasurementInv, Len(contextBindings) < MaxBindings, NEW run \in Runs,
           NEW b \in DOMAIN contextBindings, NEW s \in Slots, Propagate(run, b, s)
    PROVE  MeasurementInv'
<1> DEFINE n == Len(contextBindings)
           x == contextBindings[b]
           y == BindingOf(s, run, x.context, b)
<1>1. /\ n \in Nat /\ DOMAIN contextBindings = 1 .. n /\ x \in ContextBinding
      /\ contexts \in Seq(ContextRow)
    BY DEF MeasurementInv, MeasurementTypeOK
<1>2. BindingOk(b)
    BY DEF MeasurementInv
<1>3. x.context \in DOMAIN contexts /\ x.row.value = contexts[x.context].row.value
    BY <1>2 DEF BindingOk
<1>4. rows[x.owner] = x.row
    BY ChainBindings DEF Propagate, ResolveBinding, Unchanged
<1>5. /\ Slot[s].from = x.owner /\ Live(rows[s]) /\ rows[s].value = rows[x.owner].value
      /\ Slot[s].resource # "LINE" /\ rows[s] # Absent
    BY DEF Propagate, QualifiedEdge, Edges, Owning
<1>6. s \notin Lines
    BY <1>5 DEF Lines
<1>7. rows[s] \in Content
    BY <1>5 DEF MeasurementInv, MeasurementTypeOK
<1>8. y \in ContextBinding /\ y.owner = s /\ y.row = rows[s] /\ y.context = x.context /\ y.parent = b
    <2>1. b \in 0 .. MaxBindings
        BY <1>1, SlotAssumption
    <2>2. x.context \in 1 .. MaxContexts
        BY <1>1 DEF ContextBinding
    <2> HIDE DEF x
    <2> QED  BY <1>7, <2>1, <2>2 DEF BindingOf, ContextBinding
<1>9. contextBindings' = Append(contextBindings, y) /\ Bound(s) = {} /\ UNCHANGED <<rows, files, contexts>>
    BY DEF Propagate, MayBind
<1> HIDE DEF x, y
<1>10. contexts' = contexts /\ DOMAIN contexts = 1 .. Len(contexts) /\ Len(contexts) \in Nat
    BY <1>1, <1>9
<1>11. \A c \in DOMAIN contexts' : ~ (c > Len(contexts))
    BY <1>10
<1>12. y.parent \in 0 .. n /\ y.parent # 0
    BY <1>1, <1>8
<1>13. y.row.value = contexts'[y.context].row.value /\ y.context \in DOMAIN contexts'
    BY <1>3, <1>4, <1>5, <1>8, <1>10
<1>14. y.owner \notin Lines /\ Slot[y.owner].from = contextBindings[y.parent].owner
    BY <1>5, <1>6, <1>8 DEF x
<1>15. Len(contexts) <= Len(contexts') /\ \A c \in 1 .. Len(contexts) : contexts'[c] = contexts[c]
    BY <1>10
<1> QED  BY <1>1, <1>5, <1>8, <1>9, <1>10, <1>11, <1>12, <1>13, <1>14, <1>15, AddBinding

\* Nothing is there at first.
LEMMA MeasurementsInit == MeasurementInit => MeasurementInv
BY DEF MeasurementInit, MeasurementInv, MeasurementTypeOK, Lines, FileState

\* The owning stores change their own rows only.
LEMMA RowsInv ==
    ASSUME MeasurementInv, NEW s \in Slots, NEW row \in Content \cup {Absent}, s \in Lines => row = Absent \/ Live(row),
           rows' = [rows EXCEPT ![s] = row], UNCHANGED <<files, contexts, contextBindings>>
    PROVE  MeasurementInv'
<1>1. rows' \in [Slots -> Content \cup {Absent}]
    BY DEF MeasurementInv, MeasurementTypeOK
<1>2. MeasurementTypeOK'
    BY <1>1 DEF MeasurementInv, MeasurementTypeOK
<1>3. \A t \in Lines : rows'[t] = Absent \/ Live(rows'[t])
    BY DEF MeasurementInv, MeasurementTypeOK, Lines
<1>4. \A b \in DOMAIN contextBindings : BindingOk(b)'
    BY DEF MeasurementInv, BindingOk
<1>5. \A c \in DOMAIN contexts : RevisionOk(c)'
    BY DEF MeasurementInv, RevisionOk
<1> QED  BY <1>2, <1>3, <1>4, <1>5 DEF MeasurementInv

\* Every step keeps contexts and bindings in order.
LEMMA MeasurementsNext == MeasurementInv /\ [MeasurementNext]_measurementVars => MeasurementInv'
<1> SUFFICES ASSUME MeasurementInv, [MeasurementNext]_measurementVars PROVE MeasurementInv'
    OBVIOUS
<1>1. ASSUME NEW s \in Slots, DeleteRow(s) PROVE MeasurementInv'
    BY <1>1, RowsInv DEF DeleteRow
<1>2. ASSUME NEW s \in Slots, NEW content \in Content, WriteRow(s, content) PROVE MeasurementInv'
    BY <1>2, RowsInv DEF WriteRow
<1>3. ASSUME NEW f \in Slots, Canonicalise(f) PROVE MeasurementInv'
    <2>1. Slot[f].from \in Slots
        BY <1>3, SlotAssumption DEF Canonicalise, SlotFacts
    <2>2. MadeOf(f) \in Content \cup {Absent} /\ f \notin Lines
        BY <1>3, <2>1 DEF MadeOf, Canonicalise, Lines, MeasurementInv, MeasurementTypeOK
    <2>3. rows' = [rows EXCEPT ![f] = MadeOf(f)] /\ UNCHANGED <<files, contexts, contextBindings>>
        BY <1>3 DEF Canonicalise
    <2> QED  BY <2>2, <2>3, RowsInv
<1>4. ASSUME NEW f \in Slots, Retire(f) PROVE MeasurementInv'
    <2> DEFINE row == [rows[f] EXCEPT !.status = "OTHER"]
    <2>1. rows[f] \in Content \cup {Absent} /\ Live(rows[f]) /\ f \notin Lines
        BY <1>4 DEF Retire, Lines, MeasurementInv, MeasurementTypeOK
    <2>2. rows[f] \in Content
        BY <2>1 DEF Live, Absent
    <2>3. row \in Content
        BY <2>2 DEF Content
    <2>4. rows' = [rows EXCEPT ![f] = row] /\ UNCHANGED <<files, contexts, contextBindings>>
        BY <1>4 DEF Retire
    <2> HIDE DEF row
    <2> QED  BY <2>1, <2>3, <2>4, RowsInv
<1>5. ASSUME NEW s \in Lines, NEW state \in FileState, ChangeFile(s, state) PROVE MeasurementInv'
    <2>1. files' \in [Lines -> FileState] /\ UNCHANGED <<rows, contexts, contextBindings>>
        BY <1>5 DEF ChangeFile, MeasurementInv, MeasurementTypeOK
    <2>2. MeasurementTypeOK'
        BY <2>1 DEF MeasurementInv, MeasurementTypeOK
    <2>3. \A b \in DOMAIN contextBindings : BindingOk(b)'
        BY <2>1 DEF MeasurementInv, BindingOk
    <2>4. \A c \in DOMAIN contexts : RevisionOk(c)'
        BY <2>1 DEF MeasurementInv, RevisionOk
    <2> QED  BY <2>1, <2>2, <2>3, <2>4 DEF MeasurementInv
<1>6. ASSUME NEW run \in Runs, Len(contexts) < MaxContexts, Len(contextBindings) < MaxBindings,
             NEW s \in Slots, NEW c \in 0 .. Len(contexts), CaptureAccounting(run, s, c)
      PROVE  MeasurementInv'
    <2>1. /\ s \in Lines /\ Owning(s) /\ Persist(s, run, c) /\ UNCHANGED <<rows, files>>
          /\ c # 0 => MayRevise(s, c)
        BY <1>6 DEF CaptureAccounting, Capturable
    <2>2. Live(rows[s])
        BY <2>1 DEF Owning, MeasurementInv
    <2> QED  BY <1>6, <2>1, <2>2, PersistInv
<1>7. ASSUME NEW run \in Runs, Len(contexts) < MaxContexts, Len(contextBindings) < MaxBindings,
             NEW s \in Slots, BackfillFactSlot(run, s)
      PROVE  MeasurementInv'
    <2>1. Owning(s) /\ Live(rows[s]) /\ Persist(s, run, 0) /\ UNCHANGED <<rows, files>>
        BY <1>7 DEF BackfillFactSlot, Capturable, Owning
    <2>2. 0 \in 0 .. Len(contexts)
        BY DEF MeasurementInv, MeasurementTypeOK
    <2> QED  BY <1>7, <2>1, <2>2, PersistInv
<1>8. ASSUME NEW run \in Runs, Len(contextBindings) < MaxBindings, NEW b \in DOMAIN contextBindings,
             NEW s \in Slots, Propagate(run, b, s)
      PROVE  MeasurementInv'
    BY <1>8, PropagateInv
<1>9. CASE UNCHANGED measurementVars
    <2>1. UNCHANGED <<rows, files, contexts, contextBindings>>
        BY <1>9 DEF measurementVars
    <2>2. \A b \in DOMAIN contextBindings : BindingOk(b)'
        BY <2>1 DEF MeasurementInv, BindingOk
    <2>3. \A c \in DOMAIN contexts : RevisionOk(c)'
        BY <2>1 DEF MeasurementInv, RevisionOk
    <2> QED  BY <2>1, <2>2, <2>3 DEF MeasurementInv, MeasurementTypeOK
<1> QED  BY <1>1, <1>2, <1>3, <1>4, <1>5, <1>6, <1>7, <1>8, <1>9 DEF MeasurementNext

\* The inductive invariant of the measurements.
LEMMA MeasurementsInvariance == MeasurementSpec => []MeasurementInv
BY MeasurementsInit, MeasurementsNext, PTL DEF MeasurementSpec

\* Rows, files, contexts and bindings keep the shape of their contracts.
THEOREM MeasurementTypeCorrect == MeasurementSpec => []MeasurementTypeOK
<1>1. MeasurementInv => MeasurementTypeOK
    BY DEF MeasurementInv
<1> QED  BY <1>1, MeasurementsInvariance, PTL

\* A binding that resolves has the value of its origin at every step from it.
LEMMA Resolves ==
    ASSUME MeasurementInv, NEW b \in DOMAIN contextBindings, NEW reader \in Runs, ResolveBinding(b, reader),
           NEW k \in Chain[b]
    PROVE  LET origin == contexts[contextBindings[b].context].origin
               s == contextBindings[k].owner
           IN  /\ Live(rows[s]) /\ rows[s].value = rows[origin].value
               /\ s = origin \/ Slot[s].from = contextBindings[contextBindings[k].parent].owner
               /\ Slot[s].resource = "FACT" => rows[Slot[s].from] = rows[s]
               /\ s \in Lines /\ contexts[contextBindings[k].context].retained
                      => files[s] = "RETAINED" /\ rows[s].value = Slot[s].declared
<1> DEFINE c == contextBindings[b].context
           origin == contexts[c].origin
           s == contextBindings[k].owner
           by == IF origin \in Lines THEN contexts[c].run ELSE reader
<1>1. k \in DOMAIN contextBindings
    BY ChainBindings
<1>2. BindingOk(k)
    BY <1>1 DEF MeasurementInv
<1>3. contextBindings[k].context = c /\ Owning(s) /\ rows[s] = contextBindings[k].row
    BY DEF ResolveBinding, Unchanged
<1>4. Capturable(origin, by) /\ ContextOf(origin, by, contexts[c].supersedes) = contexts[c]
    BY DEF ResolveBinding, ContextCurrent
<1>5. contexts[c].row = rows[origin] /\ contexts[c].retained = (origin \in Lines /\ files[origin] = "RETAINED")
    <2> DEFINE x == ContextOf(origin, by, contexts[c].supersedes)
    <2>1. x.row = rows[origin] /\ x.retained = (origin \in Lines /\ files[origin] = "RETAINED")
        BY DEF ContextOf
    <2>2. x = contexts[c]
        BY <1>4
    <2> HIDE DEF x
    <2> QED  BY <2>1, <2>2
<1>6. /\ Live(rows[s]) /\ rows[s].value = rows[origin].value
      /\ s = origin \/ Slot[s].from = contextBindings[contextBindings[k].parent].owner
    BY <1>2, <1>3, <1>5 DEF BindingOk
<1>7. Slot[s].resource = "FACT" => rows[Slot[s].from] = rows[s]
    BY <1>3 DEF Owning, MadeOf
<1>8. ASSUME s \in Lines, contexts[c].retained
      PROVE  files[s] = "RETAINED" /\ rows[s].value = Slot[s].declared
    <2>1. s = origin
        BY <1>2, <1>3, <1>8 DEF BindingOk
    <2>2. origin \in Lines /\ files[origin] = "RETAINED"
        BY <1>5, <1>8
    <2>3. rows[origin].value = Slot[origin].declared
        BY <1>4, <2>2 DEF Capturable
    <2> QED  BY <2>1, <2>2, <2>3
<1> QED  BY <1>3, <1>6, <1>7, <1>8

\* Of the bindings of a row, one resolves at most.
LEMMA OneResolves ==
    ASSUME MeasurementInv, NEW s, NEW reader
    PROVE  Cardinality({b \in DOMAIN contextBindings :
                            contextBindings[b].owner = s /\ ResolveBinding(b, reader)}) <= 1
<1> DEFINE B == {b \in DOMAIN contextBindings : contextBindings[b].owner = s /\ ResolveBinding(b, reader)}
<1>1. \A b \in B : contextBindings[b].row = rows[s]
    BY ChainBindings DEF ResolveBinding, Unchanged
<1>2. \A a, b \in B : a = b
    BY <1>1 DEF MeasurementInv
<1> HIDE DEF B
<1>3. ASSUME B = {} PROVE Cardinality(B) <= 1
    BY <1>3, FS_EmptySet
<1>4. ASSUME B # {} PROVE Cardinality(B) <= 1
    <2>1. PICK b \in B : B = {b}
        BY <1>2, <1>4
    <2> QED  BY SMTT(30), <2>1, FS_Singleton
<1>5. Cardinality(B) <= 1
    BY <1>3, <1>4
<1> QED  BY <1>5 DEF B

\* However rows are rewritten, retired and rebound and files lost: a binding that resolves
\* names the value of its origin at every measurement on the way, read from the retained
\* file where there is one, a row has at most one that resolves, and a context supersedes
\* an earlier one of its family and period (service.py:83, :210, :222, :252).
THEOREM ContextsFaithful == MeasurementSpec => []ContextsAreFaithful
<1>1. MeasurementInv => ResolvedIsOriginal
    BY Resolves DEF ResolvedIsOriginal
<1>2. MeasurementInv => OneAuthority
    BY OneResolves DEF OneAuthority, MeasurementInv, RevisionOk
<1> QED  BY <1>1, <1>2, MeasurementsInvariance, PTL DEF ContextsAreFaithful

-----------------------------------------------------------------------------
(* Relations *)

\* What is reached from some rows, as they are and were they all retained.
Reach(S) == {x \in Origins : \A T \in SUBSET Origins : S \subseteq T /\ (\A r \in T : Leads(r) \subseteq T) => x \in T}
Whole(S) == {x \in Origins : \A T \in SUBSET Origins : S \subseteq T /\ (\A r \in T : Origin[r].leads \subseteq T) => x \in T}

\* Rows lead to rows.
LEMMA LeadsOrigins == \A r \in Origins : Leads(r) \subseteq Origins /\ Origin[r].leads \subseteq Origins
<1> SUFFICES ASSUME NEW r \in Origins PROVE Leads(r) \subseteq Origins /\ Origin[r].leads \subseteq Origins
    OBVIOUS
<1>1. Origin[r] \in OriginFacts
    BY GraphAssumption
<1>2. Origin[r].leads \in SUBSET Origins
    BY <1>1 DEF OriginFacts
<1> QED  BY <1>2 DEF Leads

\* The walk over finitely many rows, step by step, finds what is reached.
LEMMA WalkReaches ==
    ASSUME NEW S \in SUBSET Origins PROVE Walk(S) = Reach(S)
<1> DEFINE Beyond(v) == UNION {Leads(r) : r \in v}
           Eq(f) == f = [v \in SUBSET Origins |-> IF Beyond(v) \subseteq v THEN v ELSE f[v \cup Beyond(v)]]
           R == [v \in SUBSET Origins |-> Reach(v)]
           w == CHOOSE f : Eq(f)
<1>1. \A v \in SUBSET Origins : Beyond(v) \in SUBSET Origins
    BY LeadsOrigins
<1>2. Walk(S) = w[S]
    BY DEF Walk
<1>3. \A v \in SUBSET Origins : v \subseteq Reach(v) /\ Reach(v) \in SUBSET Origins
    BY DEF Reach
<1>4. ASSUME NEW v \in SUBSET Origins, Beyond(v) \subseteq v PROVE Reach(v) = v
    <2>1. \A r \in v : Leads(r) \subseteq v
        BY <1>4
    <2>2. Reach(v) \subseteq v
        BY <2>1 DEF Reach
    <2> QED  BY <1>3, <2>2
<1>5. ASSUME NEW v \in SUBSET Origins PROVE Reach(v) = Reach(v \cup Beyond(v))
    <2>1. ASSUME NEW T \in SUBSET Origins, \A r \in T : Leads(r) \subseteq T
          PROVE  v \subseteq T <=> v \cup Beyond(v) \subseteq T
        BY <2>1
    <2> HIDE DEF Beyond
    <2> QED  BY <2>1 DEF Reach
<1> HIDE DEF Beyond
<1>6. Eq(R)
    <2>1. \A v \in SUBSET Origins : v \cup Beyond(v) \in SUBSET Origins
        BY <1>1
    <2>2. \A v \in SUBSET Origins : Reach(v) = IF Beyond(v) \subseteq v THEN v ELSE R[v \cup Beyond(v)]
        BY <1>4, <1>5, <2>1
    <2> QED  BY <2>2
<1>7. Eq(w)
    <2> HIDE DEF Eq, R
    <2> QED  BY <1>6
<1> HIDE DEF w
<1>8. \A v \in SUBSET Origins : w[v] = IF Beyond(v) \subseteq v THEN v ELSE w[v \cup Beyond(v)]
    BY <1>7
<1> HIDE DEF Eq, R
<1> DEFINE Bad == {v \in SUBSET Origins : w[v] # Reach(v)}
           Sizes == {Cardinality(v) : v \in Bad}
           n == Cardinality(Origins)
<1>9. n \in Nat /\ \A v \in SUBSET Origins : IsFiniteSet(v) /\ Cardinality(v) \in 0 .. n
    <2>1. IsFiniteSet(Origins)
        BY GraphAssumption
    <2>2. n \in Nat
        BY <2>1, FS_CardinalityType
    <2>3. ASSUME NEW v \in SUBSET Origins PROVE IsFiniteSet(v) /\ Cardinality(v) \in 0 .. n
        <3>1. IsFiniteSet(v) /\ Cardinality(v) <= n
            BY <2>1, FS_Subset
        <3>2. Cardinality(v) \in Nat
            BY <3>1, FS_CardinalityType
        <3> QED  BY <2>2, <3>1, <3>2
    <2> QED  BY <2>2, <2>3
<1>10. Bad = {}
    <2>1. SUFFICES ASSUME Bad # {} PROVE FALSE
        OBVIOUS
    <2>2. Sizes # {} /\ \A m \in Sizes : m \in 0 .. n
        BY <1>9, <2>1
    <2>3. PICK k \in Sizes : \A j \in Sizes : j <= k
        <3> HIDE DEF Sizes, n
        <3> QED  BY <1>9, <2>2, GreatestNatural
    <2>4. PICK v \in Bad : Cardinality(v) = k
        OBVIOUS
    <2>5. ~ (Beyond(v) \subseteq v)
        BY <1>4, <1>8, <2>4
    <2> DEFINE u == v \cup Beyond(v)
    <2>6. u \in SUBSET Origins /\ v \in SUBSET u /\ u # v
        BY <1>1, <2>4, <2>5
    <2>7. w[v] = w[u] /\ Reach(v) = Reach(u)
        BY <1>5, <1>8, <2>4, <2>5
    <2> HIDE DEF u
    <2>8. Cardinality(v) < Cardinality(u)
        <3>1. Cardinality(v) <= Cardinality(u) /\ (Cardinality(u) = Cardinality(v) => u = v)
            BY <1>9, <2>6, FS_Subset
        <3>2. Cardinality(v) \in Nat /\ Cardinality(u) \in Nat
            BY <1>9, <2>4, <2>6
        <3> QED  BY <2>6, <3>1, <3>2
    <2>9. u \notin Bad
        <3>1. SUFFICES ASSUME u \in Bad PROVE FALSE
            OBVIOUS
        <3>2. Cardinality(u) \in Sizes
            BY <3>1
        <3>3. Cardinality(u) <= Cardinality(v)
            BY <2>3, <2>4, <3>2
        <3>4. Cardinality(v) \in Nat /\ Cardinality(u) \in Nat
            BY <1>9, <2>4, <2>6
        <3> QED  BY <2>8, <3>3, <3>4
    <2> QED  BY <2>4, <2>6, <2>7, <2>9
<1> QED  BY <1>2, <1>10

\* If all that is found is retained, it is all there ever was to find.
LEMMA WalkWhole ==
    ASSUME NEW S \in SUBSET Origins, \A r \in Walk(S) : Retained(r) PROVE Walk(S) = Whole(S)
<1>1. Walk(S) = Reach(S)
    BY WalkReaches
<1>2. \A r \in Origins : Leads(r) \subseteq Origin[r].leads
    BY DEF Leads
<1>3. Reach(S) \subseteq Whole(S)
    <2>1. ASSUME NEW T \in SUBSET Origins, \A r \in T : Origin[r].leads \subseteq T
          PROVE  \A r \in T : Leads(r) \subseteq T
        BY <1>2, <2>1
    <2> QED  BY <2>1, Zenon DEF Reach, Whole
<1>4. Whole(S) \subseteq Reach(S)
    <2> DEFINE T == Reach(S)
    <2>1. T \in SUBSET Origins /\ S \subseteq T
        BY DEF Reach
    <2>2. ASSUME NEW r \in T PROVE Origin[r].leads \subseteq T
        <3>1. Origin[r].leads = Leads(r) /\ Leads(r) \subseteq Origins
            BY <1>1, <2>1, LeadsOrigins DEF Leads
        <3>2. \A y \in Leads(r) : y \in T
            BY <3>1 DEF Reach
        <3> QED  BY <3>1, <3>2
    <2> HIDE DEF T
    <2>3. Whole(S) \subseteq T
        BY <2>1, <2>2 DEF Whole
    <2> QED  BY <2>3 DEF T
<1> QED  BY <1>1, <1>3, <1>4

\* What a Finding observes up to a revision, and the object that is read for it.
ObservedAt(o, run, revision) ==
    {Object[o].observes[k] : k \in {k \in DOMAIN Object[o].observes :
        k <= revision /\ Object[Object[o].observes[k]].run = run}}
Base(o, run, revision) ==
    IF Object[o].type = "FINDING" THEN CHOOSE f \in ObservedAt(o, run, revision) : TRUE ELSE o

\* The files that an object, read at a revision, rests on.
FilesOf(o, run, revision) == OfKind(Whole(Named(Base(o, run, revision))), "FILE")

\* An end is what was read of an object, at a revision that it had.
EndOk(e) ==
    /\ e.object \in Objects /\ e.revision \in 1 .. standing[e.object].revision
    /\ Object[e.object].type = "FINDING" => Cardinality(ObservedAt(e.object, e.run, e.revision)) = 1

\* Those observed are finitely many objects, and stay observed.
LEMMA ObservedGrow ==
    ASSUME NEW o \in Objects, NEW run, NEW i \in Nat, NEW j \in Nat, i <= j
    PROVE  /\ ObservedAt(o, run, i) \subseteq ObservedAt(o, run, j)
           /\ IsFiniteSet(ObservedAt(o, run, j)) /\ ObservedAt(o, run, j) \subseteq Objects
<1> DEFINE s == Object[o].observes
           K(r) == {k \in DOMAIN s : k <= r /\ Object[s[k]].run = run}
           f == [k \in K(j) |-> s[k]]
<1>1. s \in Seq(Objects)
    BY GraphAssumption DEF ObjectFacts
<1>2. Len(s) \in Nat /\ DOMAIN s = 1 .. Len(s) /\ \A k \in DOMAIN s : s[k] \in Objects
    BY <1>1
<1>3. K(i) \subseteq K(j)
    BY <1>2
<1>4. \A r : ObservedAt(o, run, r) = {s[k] : k \in K(r)}
    BY DEF ObservedAt
<1>5. IsFiniteSet(K(j))
    <2>1. IsFiniteSet(1 .. Len(s))
        BY <1>2, FS_Interval
    <2>2. K(j) \in SUBSET (1 .. Len(s))
        BY <1>2
    <2> HIDE DEF K, s
    <2> QED  BY <2>1, <2>2, FS_Subset
<1>6. \A k \in K(j) : s[k] \in Objects
    BY <1>2
<1> HIDE DEF K, s
<1>7. f \in Surjection(K(j), ObservedAt(o, run, j))
    BY <1>4 DEF Surjection
<1>8. IsFiniteSet(ObservedAt(o, run, j))
    <2> HIDE DEF f
    <2> QED  BY <1>5, <1>7, FS_Surjection
<1> QED  BY <1>3, <1>4, <1>6, <1>8

\* A Finding that had one Fact of a run at two revisions had the same.
LEMMA SameBase ==
    ASSUME NEW o \in Objects, NEW run, NEW i \in Nat, NEW j \in Nat, i <= j,
           Object[o].type = "FINDING" => /\ Cardinality(ObservedAt(o, run, i)) = 1
                                         /\ Cardinality(ObservedAt(o, run, j)) = 1
    PROVE  Base(o, run, i) = Base(o, run, j)
<1>1. CASE Object[o].type = "FINDING"
    <2> DEFINE A1 == ObservedAt(o, run, i)
               B1 == ObservedAt(o, run, j)
    <2>1. A1 \in SUBSET B1 /\ IsFiniteSet(B1) /\ Cardinality(A1) = 1 /\ Cardinality(B1) = 1
        BY <1>1, ObservedGrow
    <2>2. A1 = B1
        <3> HIDE DEF A1, B1
        <3> QED  BY <2>1, FS_Subset
    <2> QED  BY <2>2 DEF Base
<1> QED  BY <1>1 DEF Base

\* The ancestry of rows found.
LEMMA AncestryFields ==
    ASSUME NEW seen
    PROVE  /\ Ancestry(seen).references = seen
           /\ Ancestry(seen).files = OfKind({r \in seen : Retained(r)}, "FILE")
           /\ Ancestry(seen).complete <=>
                {r \in seen : Unresolved(r)} = {} /\ OfKind({r \in seen : Retained(r)}, "FILE") # {}
           /\ Ancestry(seen).complete \in BOOLEAN
BY DEF Ancestry, AncestryOf

\* What a node says of its object.
LEMMA NodeFields ==
    ASSUME NEW o \in Objects, NEW run
    PROVE  LET e == Node(o, run) IN
           /\ e.object = o /\ e.revision = standing[o].revision /\ e.run = run
           /\ e.ancestry = Ancestry(Walk(Named(Base(o, run, standing[o].revision))))
BY DEF Node, Base, Observed, ObservedAt

\* The node of a readable object is an end, of an object it is read through.
LEMMA NodeReadable ==
    ASSUME GraphTypeOK, NEW o \in Objects, NEW run, Readable(o, run)
    PROVE  /\ EndOk(Node(o, run)) /\ Base(o, run, standing[o].revision) \in Objects
           /\ Named(Base(o, run, standing[o].revision)) \in SUBSET Origins
<1> DEFINE n == standing[o].revision
           b == Base(o, run, n)
<1>1. n \in Nat \ {0}
    BY GraphAssumption DEF GraphTypeOK
<1>2. Observed(o, run) = ObservedAt(o, run, n)
    BY DEF Observed, ObservedAt
<1>3. Object[o].type = "FINDING" => Cardinality(ObservedAt(o, run, n)) = 1
    BY <1>2 DEF Readable
<1>4. EndOk(Node(o, run))
    <2> DEFINE e == Node(o, run)
    <2>1. e.object = o /\ e.revision = n /\ e.run = run
        BY NodeFields
    <2> HIDE DEF e
    <2>2. EndOk(e)
        BY <1>1, <1>3, <2>1 DEF EndOk
    <2> QED  BY <2>2 DEF e
<1>5. b \in Objects
    <2>1. CASE Object[o].type = "FINDING"
        <3>1. ObservedAt(o, run, n) # {} /\ ObservedAt(o, run, n) \subseteq Objects
            BY <1>1, <1>3, <2>1, ObservedGrow, FS_EmptySet
        <3> QED  BY <2>1, <3>1 DEF Base
    <2> QED  BY <2>1 DEF Base
<1> HIDE DEF b
<1>6. Named(b) \in SUBSET Origins
    <2>1. Object[b].signal \in Origins \cup {"NONE"}
        BY <1>5, GraphAssumption DEF ObjectFacts
    <2> QED  BY <2>1, LeadsOrigins DEF Named
<1> QED  BY <1>4, <1>5, <1>6 DEF b

\* A complete ancestry is the whole one, of rows that are there and files that are sound.
LEMMA NodeWhole ==
    ASSUME GraphTypeOK, NEW o \in Objects, NEW run, Readable(o, run), Node(o, run).ancestry.complete
    PROVE  LET x == Node(o, run).ancestry IN
           /\ x.files = FilesOf(o, run, standing[o].revision) /\ x.files # {}
           /\ x.files = OfKind(x.references, "FILE")
           /\ \A r \in x.references : origins[r] # "MISSING"
           /\ \A r \in x.files : origins[r] = "SOUND"
<1> DEFINE S == Named(Base(o, run, standing[o].revision))
           seen == Walk(S)
           x == Node(o, run).ancestry
<1>1. S \in SUBSET Origins
    BY NodeReadable
<1>2. x = Ancestry(seen)
    BY NodeFields
<1> HIDE DEF x, S, seen
<1>3. /\ x.references = seen /\ x.files = OfKind({r \in seen : Retained(r)}, "FILE")
      /\ {r \in seen : Unresolved(r)} = {} /\ x.files # {}
    <2>1. x.complete
        BY DEF x
    <2> QED  BY <1>2, <2>1, AncestryFields
<1>4. \A r \in seen : ~ Unresolved(r) /\ Retained(r)
    BY <1>3 DEF Unresolved
<1>5. seen = Whole(S) /\ {r \in seen : Retained(r)} = seen
    BY <1>1, <1>4, WalkWhole DEF seen
<1>6. x.files = OfKind(seen, "FILE")
    BY <1>3, <1>5
<1>7. \A r \in seen : origins[r] # "MISSING"
    BY <1>4 DEF Retained
<1>8. \A r \in x.files : origins[r] = "SOUND"
    BY <1>4, <1>6 DEF Unresolved, OfKind
<1>9. FilesOf(o, run, standing[o].revision) = OfKind(Whole(S), "FILE")
    BY DEF FilesOf, S
<1> QED  BY <1>3, <1>5, <1>6, <1>7, <1>8, <1>9 DEF x

\* Nodes whose files are apart are apart.
LEMMA NodesApart ==
    ASSUME GraphTypeOK, NEW o \in Objects, NEW q \in Objects, NEW run, NEW other,
           Readable(o, run), Readable(q, other),
           Node(o, run).ancestry.complete, Node(q, other).ancestry.complete,
           Node(o, run).ancestry.files \cap Node(q, other).ancestry.files = {}
    PROVE  Apart(Node(o, run), Node(q, other))
<1> DEFINE x == Node(o, run).ancestry
           y == Node(q, other).ancestry
<1>1. /\ x.files # {} /\ x.files = OfKind(x.references, "FILE") /\ \A r \in x.references : origins[r] # "MISSING"
      /\ \A r \in x.files : origins[r] = "SOUND"
    BY NodeWhole
<1>2. /\ y.files # {} /\ y.files = OfKind(y.references, "FILE") /\ \A r \in y.references : origins[r] # "MISSING"
      /\ \A r \in y.files : origins[r] = "SOUND"
    BY NodeWhole
<1>3. x.files \cap y.files = {}
    OBVIOUS
<1> HIDE DEF x, y
<1>4. x.references \cap y.references \cap x.files = {}
    BY <1>1, <1>2, <1>3 DEF OfKind
<1> QED  BY <1>1, <1>2, <1>4 DEF Apart, x, y

\* Evidence that is independent is complete, and shares no file.
LEMMA IndependentFiles ==
    ASSUME NEW a, NEW b, Independence(a, b) = "INDEPENDENT"
    PROVE  a.ancestry.complete /\ b.ancestry.complete /\ a.ancestry.files \cap b.ancestry.files = {}
<1>1. (\A n \in {a, b} : n.ancestry.complete /\ n.eligible /\ n.authority = System)
      /\ Overlap(a.ancestry, b.ancestry) = "INDEPENDENT"
    BY DEF Independence
<1> DEFINE x == a.ancestry
           y == b.ancestry
<1> HIDE DEF x, y
<1>2. Overlap(x, y) = "INDEPENDENT"
    BY <1>1 DEF x, y
<1>3. ~ \E of \in {"files", "primitives", "records"} : x[of] \cap y[of] # {}
    BY <1>2, Zenon DEF Overlap
<1>4. x.files \cap y.files = {}
    BY <1>3
<1> QED  BY <1>1, <1>4 DEF x, y

\* Links and events, and how often a link was recorded in the first k events.
LinkRow == [source : Objects, target : Objects, relationship : Relationship, made : {"GRAPH", "FOUNDATION"}]
EventRow == [link : LinkRow, revision : Nat]
Tally(events, link, k) == Cardinality({j \in 1 .. k : events[j].link = link})
Count(link) == Tally(graphEvents, link, Len(graphEvents))

\* A co-movement is said from the lesser identity.
Directed(x) == x.relationship = "CO_MOVES_WITH" => Object[x.source].rank < Object[x.target].rank

\* What a record holds whatever has happened since: it is directed, and ends it calls
\* independent were complete and rest on different files.
Governing(row) ==
    LET a == row.ends[1]  b == row.ends[2] IN
    /\ row.link \in LinkRow /\ Directed(row.link)
    /\ row.revision \in Nat /\ a.object \in Objects /\ b.object \in Objects
    /\ row.compared.independence = "INDEPENDENT" =>
        /\ a.ancestry.complete /\ b.ancestry.complete
        /\ FilesOf(a.object, a.run, a.revision) \cap FilesOf(b.object, b.run, b.revision) = {}

\* The events of a link count its revisions, and its records, if there are any, are all of them.
EventsCount ==
    \A k \in DOMAIN graphEvents :
        /\ graphEvents[k].link \in evidenceLinks
        /\ graphEvents[k].revision = Tally(graphEvents, graphEvents[k].link, k)
RecordsCount ==
    \A r \in graphRecords :
        /\ r.revision \in 1 .. Count(r.link)
        /\ \A n \in 1 .. Count(r.link) : \E q \in graphRecords : q.link = r.link /\ q.revision = n

\* A call has read ends that its objects had, or holds a record whose revision is not
\* beyond the next; and a link that is adopted has its records while the call lasts.
CallRead(c) ==
    LET call == recorders[c]  ask == call.ask  a == call.ends[1]  b == call.ends[2] IN
    call.at = "READ" =>
        /\ ask.source \in Objects /\ ask.target \in Objects /\ ask.relationship \in Relationship /\ Directed(ask)
        /\ a.object = ask.source /\ a.run = ask.runs[1] /\ EndOk(a)
        /\ b.object = ask.target /\ b.run = ask.runs[2] /\ EndOk(b)
CallCompared(c) ==
    LET call == recorders[c] IN
    call.at = "COMPARED" =>
        /\ Governing(call.row) /\ call.row.revision \in 1 .. Count(call.row.link) + 1
        /\ call.adopted => Stored(call.row.link) \/ Count(call.row.link) = 0

GraphInv ==
    /\ GraphTypeOK
    /\ recorders = [c \in Recorders |-> recorders[c]]
    /\ evidenceLinks \subseteq LinkRow
    /\ graphEvents \in Seq(EventRow) /\ Len(graphEvents) <= MaxEvents
    /\ EventsCount /\ RecordsCount
    /\ \A r \in graphRecords : Governing(r)
    /\ \A c \in Recorders : CallRead(c) /\ CallCompared(c)

\* A tally is a number of the events tallied.
LEMMA TallyNat ==
    ASSUME NEW events, NEW link, NEW k \in Nat
    PROVE  /\ Tally(events, link, k) \in Nat /\ Tally(events, link, k) <= k
           /\ IsFiniteSet({j \in 1 .. k : events[j].link = link})
<1> DEFINE J == {j \in 1 .. k : events[j].link = link}
<1>1. IsFiniteSet(1 .. k) /\ Cardinality(1 .. k) = k
    BY FS_Interval
<1>2. J \in SUBSET (1 .. k)
    OBVIOUS
<1> HIDE DEF J
<1>3. IsFiniteSet(J) /\ Cardinality(J) <= k
    BY <1>1, <1>2, FS_Subset
<1>4. Cardinality(J) \in Nat
    BY <1>3, FS_CardinalityType
<1> QED  BY <1>3, <1>4 DEF Tally, J

\* One event more is one more of its link.
LEMMA TallyStep ==
    ASSUME NEW events, NEW link, NEW k \in Nat
    PROVE  Tally(events, link, k + 1) = IF events[k + 1].link = link THEN Tally(events, link, k) + 1
                                        ELSE Tally(events, link, k)
<1> DEFINE J == {j \in 1 .. k : events[j].link = link}
           K == {j \in 1 .. k + 1 : events[j].link = link}
<1>1. IsFiniteSet(J) /\ k + 1 \notin J
    <2>1. IsFiniteSet(J)
        BY TallyNat
    <2>2. k + 1 \notin J
        OBVIOUS
    <2> QED  BY <2>1, <2>2
<1>2. CASE events[k + 1].link = link
    <2>1. K = J \cup {k + 1}
        BY <1>2
    <2> HIDE DEF J, K
    <2>2. Cardinality(K) = Cardinality(J) + 1
        BY <1>1, <2>1, FS_AddElement
    <2> QED  BY <1>2, <2>2 DEF Tally, J, K
<1>3. CASE events[k + 1].link # link
    <2>1. K = J
        BY <1>3
    <2> QED  BY <1>3, <2>1 DEF Tally
<1> QED  BY <1>2, <1>3

\* What went before is tallied as before.
LEMMA TallyAppend ==
    ASSUME NEW events \in Seq(EventRow), NEW e \in EventRow, NEW link, NEW k \in 0 .. Len(events)
    PROVE  Tally(Append(events, e), link, k) = Tally(events, link, k)
<1> DEFINE s == Append(events, e)
<1>1. \A j \in 1 .. k : s[j] = events[j]
    OBVIOUS
<1> HIDE DEF s
<1>2. {j \in 1 .. k : s[j].link = link} = {j \in 1 .. k : events[j].link = link}
    BY <1>1
<1> QED  BY <1>2 DEF Tally, s

\* The latest record of a link is the one that was counted last.
LEMMA LatestCounts ==
    ASSUME GraphInv, NEW link, Stored(link)
    PROVE  LastRevision(link) \in 1 .. Count(link)
<1>1. PICK r \in graphRecords : r.link = link
    BY DEF Stored
<1>2. Count(link) \in Nat
    <2>1. Len(graphEvents) \in Nat
        BY DEF GraphInv
    <2> QED  BY <2>1, TallyNat DEF Count
<1>3. \A q \in graphRecords : q.link = link => q.revision \in 1 .. Count(link)
    BY DEF GraphInv, RecordsCount
<1>4. Count(link) \in 1 .. Count(link)
    BY <1>1, <1>2, <1>3
<1>5. PICK q \in graphRecords : q.link = link /\ q.revision = Count(link)
    BY <1>1, <1>4 DEF GraphInv, RecordsCount
<1>6. \A p \in graphRecords : p.link = link => p.revision <= q.revision
    BY <1>2, <1>3, <1>5
<1>7. Latest(link) \in graphRecords /\ Latest(link).link = link
    BY <1>5, <1>6 DEF Latest
<1> QED  BY <1>3, <1>7 DEF LastRevision

\* Calls stay in order while the tables do and no revision is taken back.
LEMMA CallKept ==
    ASSUME NEW c \in Recorders, CallRead(c), CallCompared(c), recorders'[c] = recorders[c],
           UNCHANGED <<graphRecords, graphEvents>>,
           \A o \in Objects : /\ standing[o].revision \in Nat /\ standing'[o].revision \in Nat
                              /\ standing[o].revision <= standing'[o].revision
    PROVE  CallRead(c)' /\ CallCompared(c)'
<1>1. \A e : EndOk(e) => /\ e.object \in Objects /\ e.revision \in 1 .. standing'[e.object].revision
                         /\ Object[e.object].type = "FINDING" => Cardinality(ObservedAt(e.object, e.run, e.revision)) = 1
    BY SMTT(30) DEF EndOk
<1>2. CallRead(c)'
    BY <1>1 DEF CallRead, EndOk
<1>3. CallCompared(c)'
    BY DEF CallCompared, Count, Stored
<1> QED  BY <1>2, <1>3

\* A call that is over says nothing.
LEMMA CallIdle ==
    ASSUME NEW c \in Recorders, recorders'[c] = [at |-> "IDLE"] PROVE CallRead(c)' /\ CallCompared(c)'
BY DEF CallRead, CallCompared

\* A relationship that is asked for is directed before it is read.
LEMMA OrientedOk ==
    ASSUME NEW given \in Asked
    PROVE  LET ask == Oriented(given) IN
           ask.source \in Objects /\ ask.target \in Objects /\ ask.relationship \in Relationship /\ Directed(ask)
<1>1. given \in Ask /\ given.source # given.target
    BY GraphAssumption
<1>2. given.source \in Objects /\ given.target \in Objects /\ given.relationship \in Relationship
    BY <1>1 DEF Ask
<1>3. /\ Object[given.source].rank \in Nat /\ Object[given.target].rank \in Nat
      /\ Object[given.source].rank # Object[given.target].rank
    BY <1>1, <1>2, GraphAssumption DEF ObjectFacts
<1>4. CASE given.relationship = "CO_MOVES_WITH" /\ Object[given.target].rank < Object[given.source].rank
    <2> DEFINE ask == [given EXCEPT !.source = given.target, !.target = given.source,
                                    !.series = Reverse(@), !.runs = Reverse(@)]
    <2>1. ask.source = given.target /\ ask.target = given.source /\ ask.relationship = given.relationship
        BY <1>1 DEF Ask
    <2>2. Oriented(given) = ask
        BY <1>4 DEF Oriented
    <2> HIDE DEF ask
    <2> QED  BY <1>2, <1>4, <2>1, <2>2 DEF Directed
<1>5. CASE ~ (given.relationship = "CO_MOVES_WITH" /\ Object[given.target].rank < Object[given.source].rank)
    <2>1. Oriented(given) = given
        BY <1>5 DEF Oriented
    <2>2. Directed(given)
        BY <1>3, <1>5 DEF Directed
    <2> QED  BY <1>2, <2>1, <2>2
<1> QED  BY <1>4, <1>5

\* Revisions are numbers.
LEMMA StandingNat ==
    ASSUME GraphTypeOK PROVE \A o \in Objects : standing[o].revision \in Nat /\ standing[o].revision >= 1
BY GraphAssumption DEF GraphTypeOK

\* Nothing is said at first.
LEMMA GraphStarts == GraphInit => GraphInv
<1> SUFFICES ASSUME GraphInit PROVE GraphInv
    OBVIOUS
<1>1. GraphTypeOK
    BY GraphAssumption DEF GraphInit, GraphTypeOK, RowState
<1>2. \A c \in Recorders : recorders[c].at = "IDLE" /\ CallRead(c) /\ CallCompared(c)
    BY DEF GraphInit, CallRead, CallCompared
<1>3. EventsCount /\ RecordsCount
    BY DEF GraphInit, EventsCount, RecordsCount
<1> QED  BY <1>1, <1>2, <1>3, GraphAssumption DEF GraphInit, GraphInv

\* The rows and the objects change on their own.
LEMMA OwnersInv ==
    ASSUME GraphInv, GraphTypeOK', UNCHANGED <<evidenceLinks, graphRecords, graphEvents, recorders>>,
           \A o \in Objects : standing[o].revision <= standing'[o].revision
    PROVE  GraphInv'
<1>1. \A o \in Objects : standing[o].revision \in Nat /\ standing'[o].revision \in Nat
    <2>1. \A o \in Objects : standing[o].revision \in Nat
        BY StandingNat DEF GraphInv
    <2>2. \A o \in Objects : standing'[o].revision \in Nat
        BY GraphAssumption DEF GraphTypeOK
    <2> QED  BY <2>1, <2>2
<1>2. \A c \in Recorders : CallRead(c)' /\ CallCompared(c)'
    BY <1>1, CallKept DEF GraphInv
<1>3. EventsCount' /\ RecordsCount'
    BY DEF GraphInv, EventsCount, RecordsCount, Count
<1> QED  BY <1>2, <1>3 DEF GraphInv

LEMMA TouchInv == ASSUME GraphInv, NEW r \in Origins, NEW state \in RowState, Touch(r, state) PROVE GraphInv'
<1>1. origins' = [origins EXCEPT ![r] = state] /\ UNCHANGED <<standing, evidenceLinks, graphRecords, graphEvents, recorders>>
    BY DEF Touch
<1>2. GraphTypeOK'
    BY <1>1 DEF GraphInv, GraphTypeOK
<1>3. \A o \in Objects : standing[o].revision <= standing'[o].revision
    BY <1>1, StandingNat DEF GraphInv
<1> QED  BY <1>1, <1>2, <1>3, OwnersInv

LEMMA ReviseInv == ASSUME GraphInv, NEW o \in Objects, NEW full \in BOOLEAN, Revise(o, full) PROVE GraphInv'
<1> DEFINE new == [revision |-> standing[o].revision + 1, full |-> full]
<1>1. /\ standing' = [standing EXCEPT ![o] = new] /\ standing[o].revision < MaxRevision
      /\ UNCHANGED <<origins, evidenceLinks, graphRecords, graphEvents, recorders>>
    BY DEF Revise
<1>2. standing \in [Objects -> [revision : 1 .. MaxRevision, full : BOOLEAN]]
    BY DEF GraphInv, GraphTypeOK
<1>3. \A q \in Objects : standing[q].revision \in 1 .. MaxRevision
    BY <1>2
<1>4. new \in [revision : 1 .. MaxRevision, full : BOOLEAN] /\ new.revision = standing[o].revision + 1
    BY <1>1, <1>3, GraphAssumption
<1> HIDE DEF new
<1>5. standing' \in [Objects -> [revision : 1 .. MaxRevision, full : BOOLEAN]]
    BY <1>1, <1>2, <1>4
<1>6. GraphTypeOK'
    BY <1>1, <1>5 DEF GraphInv, GraphTypeOK
<1>7. ASSUME NEW q \in Objects PROVE standing[q].revision <= standing'[q].revision
    <2>1. standing'[q] = IF q = o THEN new ELSE standing[q]
        BY <1>1, <1>2
    <2> QED  BY <1>3, <1>4, <2>1
<1> QED  BY <1>1, <1>6, <1>7, OwnersInv

\* Another component's link.
LEMMA RelateInv == ASSUME GraphInv, NEW ask \in Asked, Relate(ask) PROVE GraphInv'
<1> DEFINE l == LinkOf(ask, "FOUNDATION")
<1>1. evidenceLinks' = evidenceLinks \cup {l} /\ UNCHANGED <<origins, standing, graphRecords, graphEvents, recorders>>
    BY DEF Relate
<1>2. l \in LinkRow
    <2>1. ask \in Ask
        BY GraphAssumption
    <2>2. ask.source \in Objects /\ ask.target \in Objects /\ ask.relationship \in Relationship
        BY <2>1 DEF Ask
    <2> QED  BY <2>2 DEF LinkOf, LinkRow
<1> HIDE DEF l
<1>3. \A o \in Objects : /\ standing[o].revision \in Nat /\ standing'[o].revision \in Nat
                         /\ standing[o].revision <= standing'[o].revision
    BY <1>1, StandingNat DEF GraphInv
<1>4. \A c \in Recorders : CallRead(c)' /\ CallCompared(c)'
    BY <1>1, <1>3, CallKept DEF GraphInv
<1>5. EventsCount' /\ RecordsCount'
    BY <1>1 DEF GraphInv, EventsCount, RecordsCount, Count
<1>6. GraphTypeOK'
    BY <1>1 DEF GraphInv, GraphTypeOK
<1> QED  BY <1>1, <1>2, <1>4, <1>5, <1>6 DEF GraphInv

\* The records are dropped while nobody calls.
LEMMA DowngradeInv == ASSUME GraphInv, Downgrade PROVE GraphInv'
<1>1. /\ graphRecords' = {} /\ \A c \in Recorders : recorders'[c].at = "IDLE"
      /\ UNCHANGED <<origins, standing, evidenceLinks, graphEvents, recorders>>
    BY DEF Downgrade
<1>2. \A c \in Recorders : CallRead(c)' /\ CallCompared(c)'
    BY <1>1 DEF CallRead, CallCompared
<1>3. EventsCount' /\ RecordsCount'
    BY <1>1 DEF GraphInv, EventsCount, RecordsCount
<1>4. GraphTypeOK'
    BY <1>1 DEF GraphInv, GraphTypeOK
<1> QED  BY <1>1, <1>2, <1>3, <1>4 DEF GraphInv

\* A step of one call that leaves the tables keeps the invariant if it keeps the call in order.
LEMMA CallStep ==
    ASSUME GraphInv, NEW c \in Recorders, NEW call, recorders' = [recorders EXCEPT ![c] = call],
           call.at \in {"IDLE", "READ", "COMPARED"}, CallRead(c)', CallCompared(c)',
           UNCHANGED <<origins, standing, evidenceLinks, graphRecords, graphEvents>>
    PROVE  GraphInv'
<1>1. recorders = [d \in Recorders |-> recorders[d]]
    BY DEF GraphInv
<1>2. /\ recorders' = [d \in Recorders |-> recorders'[d]] /\ recorders'[c] = call
      /\ \A d \in Recorders : d # c => recorders'[d] = recorders[d]
    BY <1>1
<1>3. \A o \in Objects : /\ standing[o].revision \in Nat /\ standing'[o].revision \in Nat
                         /\ standing[o].revision <= standing'[o].revision
    BY StandingNat DEF GraphInv
<1>4. ASSUME NEW d \in Recorders PROVE CallRead(d)' /\ CallCompared(d)'
    <2>1. CASE d = c
        BY <2>1
    <2>2. CASE d # c
        BY <1>2, <1>3, <2>2, CallKept DEF GraphInv
    <2> QED  BY <2>1, <2>2
<1>5. EventsCount' /\ RecordsCount'
    BY DEF GraphInv, EventsCount, RecordsCount, Count
<1>6. \A d \in Recorders : recorders'[d].at \in {"IDLE", "READ", "COMPARED"}
    BY <1>2 DEF GraphInv, GraphTypeOK
<1>7. GraphTypeOK'
    BY <1>6 DEF GraphInv, GraphTypeOK
<1> QED  BY <1>2, <1>4, <1>5, <1>7 DEF GraphInv

\* A call that begins has read its ends as they are.
LEMMA BeginInv ==
    ASSUME GraphInv, NEW c \in Recorders, NEW given \in Asked, BeginLink(c, given) PROVE GraphInv'
<1> DEFINE ask == Oriented(given)
           ends == Ends(ask)
<1>1. BothReadable(ask) /\ UNCHANGED <<origins, standing, evidenceLinks, graphRecords, graphEvents>>
    BY DEF BeginLink
<1>2. PICK expected : recorders' = [recorders EXCEPT ![c] =
                        [at |-> "READ", ask |-> ask, expected |-> expected, ends |-> ends]]
    BY Zenon DEF BeginLink
<1>3. ask.source \in Objects /\ ask.target \in Objects /\ ask.relationship \in Relationship /\ Directed(ask)
    BY OrientedOk
<1> HIDE DEF ask
<1>4. GraphTypeOK /\ Readable(ask.source, ask.runs[1]) /\ Readable(ask.target, ask.runs[2])
    BY <1>1 DEF BothReadable, GraphInv
<1>5. /\ ends[1].object = ask.source /\ ends[1].run = ask.runs[1] /\ EndOk(ends[1])
      /\ ends[2].object = ask.target /\ ends[2].run = ask.runs[2] /\ EndOk(ends[2])
    <2>1. ends[1] = Node(ask.source, ask.runs[1]) /\ ends[2] = Node(ask.target, ask.runs[2])
        BY DEF Ends
    <2>2. EndOk(Node(ask.source, ask.runs[1])) /\ EndOk(Node(ask.target, ask.runs[2]))
        BY <1>3, <1>4, NodeReadable
    <2>3. Node(ask.source, ask.runs[1]).object = ask.source /\ Node(ask.source, ask.runs[1]).run = ask.runs[1]
        BY <1>3, NodeFields
    <2>4. Node(ask.target, ask.runs[2]).object = ask.target /\ Node(ask.target, ask.runs[2]).run = ask.runs[2]
        BY <1>3, NodeFields
    <2> QED  BY <2>1, <2>2, <2>3, <2>4
<1> HIDE DEF ends
<1> DEFINE call == [at |-> "READ", ask |-> ask, expected |-> expected, ends |-> ends]
<1>6. recorders'[c] = call /\ call.at = "READ" /\ call.ask = ask /\ call.ends = ends
    <2>1. recorders = [d \in Recorders |-> recorders[d]]
        BY DEF GraphInv
    <2> QED  BY <1>2, <2>1
<1>7. recorders' = [recorders EXCEPT ![c] = call]
    BY <1>2
<1> HIDE DEF call
<1>8. \A e : EndOk(e) => /\ e.object \in Objects /\ e.revision \in 1 .. standing'[e.object].revision
                         /\ Object[e.object].type = "FINDING" => Cardinality(ObservedAt(e.object, e.run, e.revision)) = 1
    BY <1>1 DEF EndOk
<1>9. CallRead(c)' /\ CallCompared(c)'
    <2>1. CallRead(c)'
        BY <1>3, <1>5, <1>6, <1>8 DEF CallRead, EndOk
    <2> QED  BY <1>6, <2>1 DEF CallCompared
<1> QED  BY <1>1, <1>6, <1>7, <1>9, CallStep

\* An end read before rests, if its object is complete now, on the files it rests on now.
LEMMA EndFiles ==
    ASSUME GraphTypeOK, NEW o \in Objects, NEW run, Readable(o, run), Node(o, run).ancestry.complete,
           NEW e, EndOk(e), e.object = o, e.run = run
    PROVE  Node(o, run).ancestry.files = FilesOf(e.object, e.run, e.revision)
<1> DEFINE n == standing[o].revision
<1>1. Node(o, run).ancestry.files = FilesOf(o, run, n)
    BY NodeWhole
<1>2. n \in Nat /\ e.revision \in Nat /\ e.revision <= n
    BY StandingNat DEF EndOk
<1>3. EndOk(Node(o, run)) /\ Node(o, run).object = o /\ Node(o, run).run = run /\ Node(o, run).revision = n
    BY NodeReadable, NodeFields
<1>4. Object[o].type = "FINDING" => Cardinality(ObservedAt(o, run, n)) = 1
    BY <1>3 DEF EndOk
<1>5. Object[o].type = "FINDING" => Cardinality(ObservedAt(o, run, e.revision)) = 1
    BY DEF EndOk
<1>6. Base(o, run, e.revision) = Base(o, run, n)
    BY SMTT(30), <1>2, <1>4, <1>5, SameBase
<1> QED  BY <1>1, <1>6 DEF FilesOf

\* What is compared later than it was read calls only such ends independent as rest on
\* different files at the revisions that were read.
LEMMA ComparedApart ==
    ASSUME GraphInv, NEW c \in Recorders, recorders[c].at = "READ", BothReadable(recorders[c].ask),
           NEW compared, compared = Characteristics(Ends(recorders[c].ask)[1], Ends(recorders[c].ask)[2]),
           Coherent(recorders[c], compared), compared.independence = "INDEPENDENT"
    PROVE  LET a == recorders[c].ends[1]  b == recorders[c].ends[2] IN
           /\ a.ancestry.complete /\ b.ancestry.complete
           /\ FilesOf(a.object, a.run, a.revision) \cap FilesOf(b.object, b.run, b.revision) = {}
<1> DEFINE ask == recorders[c].ask
           a == recorders[c].ends[1]
           b == recorders[c].ends[2]
           x == Node(ask.source, ask.runs[1])
           y == Node(ask.target, ask.runs[2])
<1>1. /\ ask.source \in Objects /\ a.object = ask.source /\ a.run = ask.runs[1] /\ EndOk(a)
      /\ ask.target \in Objects /\ b.object = ask.target /\ b.run = ask.runs[2] /\ EndOk(b)
    BY DEF GraphInv, CallRead
<1>2. Readable(ask.source, ask.runs[1]) /\ Readable(ask.target, ask.runs[2]) /\ GraphTypeOK
    BY DEF BothReadable, GraphInv
<1>3. compared = Characteristics(x, y)
    BY DEF Ends
<1>4. compared.independence = Independence(x, y) /\ compared.complete = <<x.ancestry.complete, y.ancestry.complete>>
    <2> HIDE DEF x, y
    <2> DEFINE i == Independence(x, y)
               z == <<x.ancestry.complete, y.ancestry.complete>>
               w == <<x.authority, y.authority>>
               u == x.ancestry.references \cap y.ancestry.references
               t == Temporal(x, y)
               v == \E l \in evidenceLinks : l.relationship = "CONTRADICTS" /\ l.target \in {x.object, y.object}
    <2>1. compared = [independence |-> i, temporal |-> t, authorities |-> w, complete |-> z, shared |-> u, contradicted |-> v]
        BY <1>3, Zenon DEF Characteristics
    <2> HIDE DEF i, z, w, u, t, v
    <2>2. compared.independence = i /\ compared.complete = z
        BY <2>1
    <2> QED  BY <2>2 DEF i, z
<1>5. x.ancestry.complete /\ y.ancestry.complete /\ x.ancestry.files \cap y.ancestry.files = {}
    BY <1>4, IndependentFiles, ZenonT(30)
<1>6. <<x.ancestry.complete, y.ancestry.complete>> = <<a.ancestry.complete, b.ancestry.complete>>
    BY <1>4 DEF Coherent
<1>7. a.ancestry.complete = x.ancestry.complete /\ b.ancestry.complete = y.ancestry.complete
    BY <1>6
<1>8. x.ancestry.files = FilesOf(a.object, a.run, a.revision)
    <2>1. Node(ask.source, ask.runs[1]).ancestry.complete
        BY <1>5
    <2> HIDE DEF ask, a
    <2>2. Node(ask.source, ask.runs[1]).ancestry.files = FilesOf(a.object, a.run, a.revision)
        BY <1>1, <1>2, <2>1, EndFiles
    <2> QED  BY <2>2 DEF ask, a
<1>9. y.ancestry.files = FilesOf(b.object, b.run, b.revision)
    <2>1. Node(ask.target, ask.runs[2]).ancestry.complete
        BY <1>5
    <2> HIDE DEF ask, b
    <2>2. Node(ask.target, ask.runs[2]).ancestry.files = FilesOf(b.object, b.run, b.revision)
        BY <1>1, <1>2, <2>1, EndFiles
    <2> QED  BY <2>2 DEF ask, b
<1> QED  BY <1>5, <1>7, <1>8, <1>9

\* A call that compares holds a record in order, or is over.
LEMMA CompareInv ==
    ASSUME GraphInv, NEW c \in Recorders, Compare(c) PROVE GraphInv'
<1> DEFINE call == recorders[c]
           links == IF MatchesOf(call.ask) = {} THEN {LinkOf(call.ask, "GRAPH")} ELSE MatchesOf(call.ask)
           reads == IF BothReadable(call.ask) THEN {Ends(call.ask)} ELSE {<<>>}
<1>1. call.at = "READ" /\ UNCHANGED <<origins, standing, evidenceLinks, graphRecords, graphEvents>>
    BY DEF Compare
<1>2. \E link \in links : \E ends \in reads :
        recorders' = [recorders EXCEPT ![c] =
            IF ends = <<>> THEN [at |-> "IDLE"] ELSE Prepared(call, Characteristics(ends[1], ends[2]), link)]
    BY Zenon DEF Compare
<1>3. PICK link \in links : \E ends \in reads :
        recorders' = [recorders EXCEPT ![c] =
            IF ends = <<>> THEN [at |-> "IDLE"] ELSE Prepared(call, Characteristics(ends[1], ends[2]), link)]
    BY <1>2
<1>4. PICK ends \in reads :
        recorders' = [recorders EXCEPT ![c] =
            IF ends = <<>> THEN [at |-> "IDLE"] ELSE Prepared(call, Characteristics(ends[1], ends[2]), link)]
    BY <1>3
<1> DEFINE compared == Characteristics(ends[1], ends[2])
           row == [link |-> link, revision |-> LastRevision(link) + 1, ends |-> call.ends,
                   rationale |-> call.ask.rationale, series |-> call.ask.series, compared |-> compared]
           next == [at |-> "COMPARED", adopted |-> MatchesOf(call.ask) # {}, row |-> row]
<1>5. recorders = [d \in Recorders |-> recorders[d]]
    BY DEF GraphInv
<1>6. CASE ends = <<>> \/ ~ Goes(call, compared, link)
    <2>1. recorders' = [recorders EXCEPT ![c] = [at |-> "IDLE"]]
        BY <1>4, <1>6 DEF Prepared
    <2>2. recorders'[c] = [at |-> "IDLE"]
        BY <1>5, <2>1
    <2>3. CallRead(c)' /\ CallCompared(c)'
        BY <2>2, CallIdle
    <2> QED  BY <1>1, <2>1, <2>3, CallStep
<1>7. CASE ends # <<>> /\ Goes(call, compared, link)
    <2>1. BothReadable(call.ask) /\ ends = Ends(call.ask)
        BY <1>4, <1>7
    <2>2. recorders' = [recorders EXCEPT ![c] = next]
        BY <1>4, <1>7 DEF Prepared
    <2>3. /\ call.ask.source \in Objects /\ call.ask.target \in Objects /\ call.ask.relationship \in Relationship
          /\ Directed(call.ask) /\ call.ends[1].object \in Objects /\ call.ends[2].object \in Objects
        BY <1>1 DEF GraphInv, CallRead
    <2>4. link \in LinkRow /\ Directed(link)
        <3>1. CASE MatchesOf(call.ask) = {}
            <4>1. link = LinkOf(call.ask, "GRAPH")
                BY <1>3, <3>1
            <4> QED  BY <2>3, <4>1 DEF LinkOf, LinkRow, Directed
        <3>2. CASE MatchesOf(call.ask) # {}
            <4>1. link \in evidenceLinks /\ <<link.source, link.target, link.relationship>>
                        = <<call.ask.source, call.ask.target, call.ask.relationship>>
                BY <1>3, <3>2 DEF MatchesOf
            <4>2. link.source = call.ask.source /\ link.target = call.ask.target /\ link.relationship = call.ask.relationship
                BY <4>1
            <4> QED  BY <2>3, <4>1, <4>2 DEF Directed, GraphInv
        <3> QED  BY <3>1, <3>2
    <2>5. Len(graphEvents) \in Nat /\ Count(link) \in Nat
        <3>1. Len(graphEvents) \in Nat
            BY DEF GraphInv
        <3> QED  BY <3>1, TallyNat DEF Count
    <2>6. LastRevision(link) + 1 \in 1 .. Count(link) + 1
        <3>1. CASE Stored(link)
            <4>1. LastRevision(link) \in 1 .. Count(link)
                BY <3>1, LatestCounts
            <4> QED  BY <2>5, <4>1
        <3>2. CASE ~ Stored(link)
            BY <2>5, <3>2 DEF LastRevision
        <3> QED  BY <3>1, <3>2
    <2>7. ASSUME MatchesOf(call.ask) # {}, ~ Stored(link) PROVE Count(link) = 0
        <3>1. \A k \in DOMAIN graphEvents : graphEvents[k].link # link
            BY <1>7, <2>7 DEF Goes, GovernanceLost
        <3>2. {j \in 1 .. Len(graphEvents) : graphEvents[j].link = link} = {}
            BY <3>1 DEF GraphInv
        <3> QED  BY <3>2, FS_EmptySet DEF Count, Tally
    <2>8. compared.independence = "INDEPENDENT" =>
            /\ call.ends[1].ancestry.complete /\ call.ends[2].ancestry.complete
            /\ FilesOf(call.ends[1].object, call.ends[1].run, call.ends[1].revision)
                \cap FilesOf(call.ends[2].object, call.ends[2].run, call.ends[2].revision) = {}
        <3>1. Coherent(call, compared)
            BY <1>7 DEF Goes
        <3>2. compared = Characteristics(Ends(call.ask)[1], Ends(call.ask)[2])
            BY <2>1
        <3> HIDE DEF compared
        <3> QED  BY <1>1, <2>1, <3>1, <3>2, ComparedApart
    <2> HIDE DEF compared
    <2>9. /\ row.link = link /\ row.revision = LastRevision(link) + 1 /\ row.ends = call.ends
          /\ row.compared = compared
        OBVIOUS
    <2> HIDE DEF row
    <2>10. Governing(row) /\ row.revision \in 1 .. Count(row.link) + 1
        <3>1. row.revision \in Nat
            BY <2>5, <2>6, <2>9
        <3> QED  BY <2>3, <2>4, <2>6, <2>8, <2>9, <3>1 DEF Governing
    <2>11. next.at = "COMPARED" /\ next.row = row /\ next.adopted = (MatchesOf(call.ask) # {})
        OBVIOUS
    <2> HIDE DEF next
    <2>12. recorders'[c] = next
        BY <1>5, <2>2
    <2>13. CallRead(c)' /\ CallCompared(c)'
        <3>1. CallRead(c)'
            BY <2>11, <2>12 DEF CallRead
        <3>2. CallCompared(c)'
            BY <1>1, <2>7, <2>9, <2>10, <2>11, <2>12 DEF CallCompared, Count, Stored
        <3> QED  BY <3>1, <3>2
    <2> QED  BY <1>1, <2>2, <2>11, <2>13, CallStep
<1> QED  BY <1>6, <1>7

\* A call that stores a record not taken stores the next of its link, and one that is
\* taken leaves nothing.
LEMMA NextRevision ==
    ASSUME GraphInv, NEW c \in Recorders, recorders[c].at = "COMPARED", ~ Taken(recorders[c])
    PROVE  LET row == recorders[c].row IN
           /\ Governing(row) /\ row.revision = Count(row.link) + 1 /\ Count(row.link) \in Nat
           /\ \A m \in 1 .. Count(row.link) : \E q \in graphRecords : q.link = row.link /\ q.revision = m
<1> DEFINE call == recorders[c]
           row == recorders[c].row
           link == recorders[c].row.link
<1>1. /\ Governing(row) /\ row.revision \in 1 .. Count(link) + 1
      /\ call.adopted => Stored(link) \/ Count(link) = 0
    BY DEF GraphInv, CallCompared
<1>2. (~ call.adopted => link \notin evidenceLinks)
      /\ ~ \E r \in graphRecords : r.link = link /\ r.revision = row.revision
    BY DEF Taken
<1>3. Len(graphEvents) \in Nat /\ Count(link) \in Nat
    <2>1. Len(graphEvents) \in Nat
        BY DEF GraphInv
    <2> QED  BY <2>1, TallyNat DEF Count
<1> HIDE DEF call, row, link
<1>4. Count(link) # 0 => link \in evidenceLinks
    <2>1. CASE \E k \in 1 .. Len(graphEvents) : graphEvents[k].link = link
        BY <2>1 DEF GraphInv, EventsCount
    <2>2. CASE ~ \E k \in 1 .. Len(graphEvents) : graphEvents[k].link = link
        <3>1. {j \in 1 .. Len(graphEvents) : graphEvents[j].link = link} = {}
            BY <2>2
        <3> QED  BY <3>1, FS_EmptySet DEF Count, Tally
    <2> QED  BY <2>1, <2>2
<1>5. ASSUME Count(link) # 0
      PROVE  \A m \in 1 .. Count(link) : \E q \in graphRecords : q.link = link /\ q.revision = m
    <2>1. Stored(link)
        BY <1>1, <1>2, <1>4, <1>5
    <2> QED  BY <2>1 DEF Stored, GraphInv, RecordsCount
<1>6. \A m \in 1 .. Count(link) : \E q \in graphRecords : q.link = link /\ q.revision = m
    BY <1>5
<1>7. row.revision = Count(link) + 1
    BY <1>1, <1>2, <1>3, <1>6
<1> QED  BY <1>1, <1>3, <1>6, <1>7 DEF row, link

LEMMA StoreInv == ASSUME GraphInv, NEW c \in Recorders, Store(c) PROVE GraphInv'
<1> DEFINE call == recorders[c]
<1>1. /\ call.at = "COMPARED" /\ Len(graphEvents) < MaxEvents
      /\ recorders' = [recorders EXCEPT ![c] = [at |-> "IDLE"]] /\ UNCHANGED <<origins, standing>>
    BY DEF Store
<1>2. /\ recorders' = [d \in Recorders |-> recorders'[d]] /\ recorders'[c] = [at |-> "IDLE"]
      /\ \A d \in Recorders : d # c => recorders'[d] = recorders[d]
    <2>1. recorders = [d \in Recorders |-> recorders[d]]
        BY DEF GraphInv
    <2> QED  BY <1>1, <2>1
<1>3. CallRead(c)' /\ CallCompared(c)'
    BY <1>2, CallIdle
<1>4. CASE Taken(call)
    <2>1. UNCHANGED <<evidenceLinks, graphRecords, graphEvents>>
        BY <1>4 DEF Store
    <2> QED  BY <1>1, <1>3, <2>1, CallStep
<1>5. CASE ~ Taken(call)
    <2> DEFINE row == recorders[c].row
               link == recorders[c].row.link
               e == [link |-> link, revision |-> row.revision]
               n == Len(graphEvents)
    <2>1. /\ evidenceLinks' = evidenceLinks \cup {link} /\ graphRecords' = graphRecords \cup {row}
          /\ graphEvents' = Append(graphEvents, e)
        BY <1>5 DEF Store
    <2>2. /\ Governing(row) /\ row.revision = Count(link) + 1 /\ Count(link) \in Nat
          /\ \A m \in 1 .. Count(link) : \E q \in graphRecords : q.link = link /\ q.revision = m
        BY <1>1, <1>5, NextRevision
    <2>3. link \in LinkRow /\ e \in EventRow /\ e.link = link /\ e.revision = row.revision
        BY <2>2 DEF Governing, EventRow
    <2>4. graphEvents \in Seq(EventRow) /\ n \in Nat
        BY DEF GraphInv
    <2>5. row.link = link
        OBVIOUS
    <2> HIDE DEF row, link, e
    <2>6. /\ graphEvents' \in Seq(EventRow) /\ Len(graphEvents') = n + 1 /\ graphEvents'[n + 1] = e
          /\ \A k \in 1 .. n : graphEvents'[k] = graphEvents[k]
        BY <2>1, <2>3, <2>4
    <2>7. \A l : \A k \in 0 .. n : Tally(graphEvents', l, k) = Tally(graphEvents, l, k)
        BY <2>1, <2>3, <2>4, TallyAppend
    <2>8. ASSUME NEW l
          PROVE  /\ Tally(graphEvents', l, n + 1) = IF l = link THEN Count(l) + 1 ELSE Count(l)
                 /\ Count(l) \in Nat /\ Count(l) <= n
        <3>1. Tally(graphEvents', l, n + 1) = IF graphEvents'[n + 1].link = l THEN Tally(graphEvents', l, n) + 1
                                              ELSE Tally(graphEvents', l, n)
            BY <2>4, TallyStep
        <3>2. Tally(graphEvents', l, n) = Count(l)
            BY <2>4, <2>7 DEF Count
        <3>3. Count(l) \in Nat /\ Count(l) <= n
            BY <2>4, TallyNat DEF Count
        <3> QED  BY <2>3, <2>6, <3>1, <3>2, <3>3
    <2> DEFINE After(l) == Tally(graphEvents', l, Len(graphEvents'))
    <2>9. \A l : /\ After(l) = (IF l = link THEN Count(l) + 1 ELSE Count(l)) /\ Count(l) \in Nat
                 /\ After(l) \in Nat /\ After(l) <= MaxEvents
        <3>1. n + 1 <= MaxEvents
            BY <1>1, <2>4, GraphAssumption
        <3> QED  BY <2>4, <2>6, <2>8, <3>1, GraphAssumption
    <2>10. EventsCount'
        <3>1. ASSUME NEW k \in 1 .. n + 1
              PROVE  /\ graphEvents'[k].link \in evidenceLinks'
                     /\ graphEvents'[k].revision = Tally(graphEvents', graphEvents'[k].link, k)
            <4>1. CASE k \in 1 .. n
                <5>1. graphEvents[k].link \in evidenceLinks
                      /\ graphEvents[k].revision = Tally(graphEvents, graphEvents[k].link, k)
                    BY <4>1 DEF GraphInv, EventsCount
                <5>2. k \in 0 .. n
                    BY <4>1
                <5> QED  BY <2>1, <2>6, <2>7, <4>1, <5>1, <5>2
            <4>2. CASE k = n + 1
                <5>1. graphEvents'[k].link = link /\ graphEvents'[k].revision = Count(link) + 1
                    BY <2>2, <2>3, <2>6, <4>2
                <5> QED  BY <2>1, <2>8, <4>2, <5>1
            <4> QED  BY <2>4, <4>1, <4>2
        <3>2. DOMAIN graphEvents' = 1 .. n + 1
            BY <2>6
        <3> QED  BY <3>1, <3>2 DEF EventsCount
    <2>11. ASSUME NEW r \in graphRecords'
           PROVE  /\ r.revision \in 1 .. After(r.link)
                  /\ \A m \in 1 .. After(r.link) : \E q \in graphRecords' : q.link = r.link /\ q.revision = m
        <3>1. CASE r.link = link
            <4>1. r.revision \in 1 .. Count(link) + 1
                <5>1. CASE r \in graphRecords
                    <6>1. r.revision \in 1 .. Count(link)
                        BY <3>1, <5>1 DEF GraphInv, RecordsCount
                    <6> QED  BY <2>2, <6>1
                <5>2. CASE r = row
                    BY <2>2, <5>2
                <5> QED  BY <2>1, <5>1, <5>2
            <4>2. ASSUME NEW m \in 1 .. Count(link) + 1
                  PROVE  \E q \in graphRecords' : q.link = link /\ q.revision = m
                <5>1. CASE m = Count(link) + 1
                    BY <2>1, <2>2, <2>5, <5>1
                <5>2. CASE m # Count(link) + 1
                    <6>1. m \in 1 .. Count(link)
                        BY <2>2, <5>2
                    <6> QED  BY <2>1, <2>2, <6>1
                <5> QED  BY <5>1, <5>2
            <4> HIDE DEF After
            <4>3. After(r.link) = Count(link) + 1
                BY <2>9, <3>1
            <4> QED  BY <3>1, <4>1, <4>2, <4>3
        <3>2. CASE r.link # link
            <4>1. r \in graphRecords
                BY <2>1, <2>5, <3>2
            <4>2. r.revision \in 1 .. Count(r.link)
                  /\ \A m \in 1 .. Count(r.link) : \E q \in graphRecords : q.link = r.link /\ q.revision = m
                BY <4>1 DEF GraphInv, RecordsCount
            <4> HIDE DEF After
            <4>3. After(r.link) = Count(r.link)
                BY <2>9, <3>2
            <4> QED  BY <2>1, <4>2, <4>3
        <3> QED  BY <3>1, <3>2
    <2>12. RecordsCount'
        BY <2>11 DEF RecordsCount, Count
    <2>13. ASSUME NEW d \in Recorders PROVE CallRead(d)' /\ CallCompared(d)'
        <3>1. CASE d = c
            BY <1>3, <3>1
        <3>2. CASE d # c
            <4>1. recorders'[d] = recorders[d] /\ CallRead(d) /\ CallCompared(d)
                BY SMTT(30), <1>2, <3>2 DEF GraphInv
            <4>2. CallRead(d)'
                BY <1>1, <4>1 DEF CallRead, EndOk
            <4>3. CallCompared(d)'
                <5> DEFINE l == recorders[d].row.link
                <5>1. SUFFICES ASSUME recorders[d].at = "COMPARED"
                      PROVE  /\ Governing(recorders[d].row) /\ recorders[d].row.revision \in 1 .. After(l) + 1
                             /\ recorders[d].adopted => (\E q \in graphRecords' : q.link = l) \/ After(l) = 0
                    BY <4>1 DEF CallCompared, Count, Stored, Governing
                <5>2. /\ Governing(recorders[d].row) /\ recorders[d].row.revision \in 1 .. Count(l) + 1
                      /\ recorders[d].adopted => (\E q \in graphRecords : q.link = l) \/ Count(l) = 0
                    BY <4>1, <5>1 DEF CallCompared, Stored
                <5> HIDE DEF l, After
                <5>3. /\ After(l) = (IF l = link THEN Count(l) + 1 ELSE Count(l)) /\ Count(l) \in Nat
                    BY <2>9
                <5>4. recorders[d].row.revision \in 1 .. After(l) + 1
                    BY <5>2, <5>3
                <5>5. recorders[d].adopted => (\E q \in graphRecords' : q.link = l) \/ After(l) = 0
                    BY <2>1, <2>5, <5>2, <5>3
                <5> QED  BY SMTT(30), <5>2, <5>4, <5>5
            <4> QED  BY <4>2, <4>3
        <3> QED  BY <3>1, <3>2
    <2>14. \A r \in graphRecords' : Governing(r)
        BY <2>1, <2>2 DEF GraphInv
    <2>15. GraphTypeOK'
        <3>1. ASSUME NEW r \in graphRecords' PROVE r.link \in evidenceLinks' /\ r.revision \in 1 .. MaxEvents
            <4>1. r.link \in evidenceLinks'
                BY <2>1, <2>5 DEF GraphInv, GraphTypeOK
            <4>2. r.revision \in 1 .. After(r.link)
                BY <2>11
            <4> HIDE DEF After
            <4>3. After(r.link) \in Nat /\ After(r.link) <= MaxEvents
                BY <2>9
            <4> QED  BY <4>1, <4>2, <4>3, GraphAssumption
        <3>2. \A d \in Recorders : recorders'[d].at \in {"IDLE", "READ", "COMPARED"}
            BY <1>2 DEF GraphInv, GraphTypeOK
        <3> QED  BY <1>1, <3>1, <3>2 DEF GraphInv, GraphTypeOK
    <2>16. Len(graphEvents') <= MaxEvents
        BY <1>1, <2>4, <2>6, GraphAssumption
    <2> QED  BY <1>2, <2>1, <2>3, <2>6, <2>10, <2>12, <2>13, <2>14, <2>15, <2>16 DEF GraphInv
<1> QED  BY <1>4, <1>5

\* Every step keeps it.
LEMMA GraphSteps == GraphInv /\ [GraphNext]_graphVars => GraphInv'
<1> SUFFICES ASSUME GraphInv, [GraphNext]_graphVars PROVE GraphInv'
    OBVIOUS
<1>1. CASE \E r \in Origins, state \in RowState : Touch(r, state)
    BY <1>1, TouchInv
<1>2. CASE \E o \in Objects, full \in BOOLEAN : Revise(o, full)
    BY <1>2, ReviseInv
<1>3. CASE \E ask \in Asked : Relate(ask)
    BY <1>3, RelateInv
<1>4. CASE Downgrade
    BY <1>4, DowngradeInv
<1>5. ASSUME NEW c \in Recorders, (\E ask \in Asked : BeginLink(c, ask)) \/ Compare(c) \/ Store(c) PROVE GraphInv'
    BY <1>5, BeginInv, CompareInv, StoreInv
<1>6. CASE UNCHANGED graphVars
    <2>1. UNCHANGED <<origins, standing, evidenceLinks, graphRecords, graphEvents, recorders>>
        BY <1>6 DEF graphVars
    <2>2. GraphTypeOK'
        BY <2>1 DEF GraphInv, GraphTypeOK
    <2>3. \A o \in Objects : standing[o].revision <= standing'[o].revision
        BY <2>1, StandingNat DEF GraphInv
    <2> QED  BY <2>1, <2>2, <2>3, OwnersInv
<1> QED  BY <1>1, <1>2, <1>3, <1>4, <1>5, <1>6 DEF GraphNext

LEMMA GraphInvariant == GraphSpec => []GraphInv
<1> QED  BY GraphStarts, GraphSteps, PTL DEF GraphSpec

\* The tables and calls of the evidence graph keep their shape: a record stands on a link
\* that is there, at a revision that its events have reached (reasoning/graph/service.py).
THEOREM GraphTypeCorrect == GraphSpec => []GraphTypeOK
<1>1. GraphInv => GraphTypeOK
    BY DEF GraphInv
<1> QED  BY <1>1, GraphInvariant, PTL

\* Records that are current, and nodes named as independent, are apart.
LEMMA CurrentApart == ASSUME GraphInv PROVE CurrentMeansApart
<1>1. ASSUME NEW r \in graphRecords, r.compared.independence = "INDEPENDENT", Freshness(r) = "CURRENT"
      PROVE  Apart(r.ends[1], r.ends[2])
    <2> DEFINE a == r.ends[1]
               b == r.ends[2]
    <2>1. /\ a.object \in Objects /\ b.object \in Objects /\ a.ancestry.complete /\ b.ancestry.complete
          /\ FilesOf(a.object, a.run, a.revision) \cap FilesOf(b.object, b.run, b.revision) = {}
        BY <1>1 DEF GraphInv, Governing
    <2>2. \A k \in {1, 2} : Readable(r.ends[k].object, r.ends[k].run)
                            /\ Node(r.ends[k].object, r.ends[k].run) = r.ends[k]
        BY <1>1, Zenon DEF Freshness
    <2>3. Readable(a.object, a.run) /\ Node(a.object, a.run) = a
        BY <2>2
    <2>4. Readable(b.object, b.run) /\ Node(b.object, b.run) = b
        BY <2>2
    <2>5. GraphTypeOK
        BY DEF GraphInv
    <2> HIDE DEF a, b
    <2>6. a.ancestry.files = FilesOf(a.object, a.run, standing[a.object].revision)
        BY <2>1, <2>3, <2>5, NodeWhole
    <2>7. b.ancestry.files = FilesOf(b.object, b.run, standing[b.object].revision)
        BY <2>1, <2>4, <2>5, NodeWhole
    <2>8. a.revision = standing[a.object].revision
        BY <2>1, <2>3, NodeFields
    <2>9. b.revision = standing[b.object].revision
        BY <2>1, <2>4, NodeFields
    <2>10. a.ancestry.files \cap b.ancestry.files = {}
        BY <2>1, <2>6, <2>7, <2>8, <2>9
    <2>11. Apart(a, b)
        BY <2>1, <2>3, <2>4, <2>5, <2>10, NodesApart
    <2> QED  BY <2>11 DEF a, b
<1>2. ASSUME NEW run \in GraphRuns, NEW o \in Objects, NEW q \in Objects, Readable(o, run), Readable(q, run),
             Independence(Node(o, run), Node(q, run)) = "INDEPENDENT"
      PROVE  Apart(Node(o, run), Node(q, run))
    <2>1. GraphTypeOK
        BY DEF GraphInv
    <2>2. /\ Node(o, run).ancestry.complete /\ Node(q, run).ancestry.complete
          /\ Node(o, run).ancestry.files \cap Node(q, run).ancestry.files = {}
        BY <1>2, IndependentFiles
    <2> QED  BY <1>2, <2>1, <2>2, NodesApart
<1>3. ASSUME NEW run \in GraphRuns
      PROVE  LET nodes == {Node(o, run) : o \in {o \in Objects : Readable(o, run)}} IN
             \A a \in nodes : \A b \in IndependentEvidence(a, nodes) : Apart(a, b)
    BY <1>2 DEF IndependentEvidence
<1> QED  BY <1>1, <1>3 DEF CurrentMeansApart

\* No revision of a link is given twice, and none stands without those it replaced.
LEMMA HistoryChains == ASSUME GraphInv PROVE HistoryIsChain
<1>1. \A k \in DOMAIN graphEvents :
        graphEvents[k].revision = Cardinality({j \in 1 .. k : graphEvents[j].link = graphEvents[k].link})
    BY DEF GraphInv, EventsCount, Tally
<1>2. ASSUME NEW r \in graphRecords, NEW n \in 1 .. r.revision
      PROVE  \E q \in graphRecords : q.link = r.link /\ q.revision = n
    <2>1. r.revision \in 1 .. Count(r.link)
          /\ \A m \in 1 .. Count(r.link) : \E q \in graphRecords : q.link = r.link /\ q.revision = m
        BY DEF GraphInv, RecordsCount
    <2>2. Count(r.link) \in Nat
        <3>1. Len(graphEvents) \in Nat
            BY DEF GraphInv
        <3> QED  BY <3>1, TallyNat DEF Count
    <2>3. n \in 1 .. Count(r.link)
        BY <2>1, <2>2
    <2> QED  BY <2>1, <2>3
<1> QED  BY <1>1, <1>2 DEF HistoryIsChain

\* Links that are governed differ in their ends, whichever way round, or in who made them.
LEMMA Governed == ASSUME GraphInv PROVE GovernedOnce
<1> SUFFICES ASSUME NEW r \in graphRecords, NEW p \in graphRecords,
                    r.link # p.link, r.link.relationship = p.link.relationship,
                    \/ <<r.link.source, r.link.target>> = <<p.link.source, p.link.target>>
                    \/ r.link.relationship = "CO_MOVES_WITH"
                       /\ <<r.link.source, r.link.target>> = <<p.link.target, p.link.source>>
             PROVE  r.link.source = p.link.source /\ "FOUNDATION" \in {r.link.made, p.link.made}
    BY DEF GovernedOnce
<1> DEFINE l == r.link
           q == p.link
<1>1. l \in LinkRow /\ q \in LinkRow /\ Directed(l) /\ Directed(q)
    BY DEF GraphInv, Governing
<1>2. l # q /\ l.relationship = q.relationship
    OBVIOUS
<1>3. \/ l.source = q.source /\ l.target = q.target
      \/ l.relationship = "CO_MOVES_WITH" /\ l.source = q.target /\ l.target = q.source
    OBVIOUS
<1> HIDE DEF l, q
<1>4. Object[l.source].rank \in Nat /\ Object[l.target].rank \in Nat
    BY <1>1, GraphAssumption DEF LinkRow, ObjectFacts
<1>5. ~ (l.relationship = "CO_MOVES_WITH" /\ l.source = q.target /\ l.target = q.source)
    BY <1>1, <1>2, <1>4 DEF Directed
<1>6. l.source = q.source /\ l.target = q.target
    BY <1>3, <1>5
<1>7. l.made # q.made
    BY <1>1, <1>2, <1>6 DEF LinkRow
<1>8. "FOUNDATION" \in {l.made, q.made}
    BY <1>1, <1>7 DEF LinkRow
<1> QED  BY <1>6, <1>8 DEF l, q

\* Whatever the stores, the recorders and the other components do between the steps of a
\* call, a current record that calls its ends independent rests on whole files that only
\* one of them rests on, and so does all that is named as independent evidence; the
\* history of a link is one chain; and two ends are governed once
\* (reasoning/graph/service.py).
THEOREM GraphFaithful == GraphSpec => []GraphIsFaithful
<1>1. GraphInv => GraphIsFaithful
    BY CurrentApart, HistoryChains, Governed DEF GraphIsFaithful
<1> QED  BY <1>1, GraphInvariant, PTL

\* The same, in the form that the runs check.
THEOREM RelationsFaithful == GraphSpec => []RelationsAreFaithful
<1>1. GraphIsFaithful => RelationsAreFaithful
    BY DEF RelationsAreFaithful
<1> QED  BY <1>1, GraphFaithful, PTL
================================================================================
