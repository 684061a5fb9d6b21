--------------------------- MODULE EconomicStory_proofs ---------------------------
(***************************************************************************)
(* Theorems about hypotheses, interpretations and the Story, for any       *)
(* sessions, runs, Facts and contracts.  What a session is about to write  *)
(* was decided on what it read; the invariant says what of that is still   *)
(* so when it writes, and compare-and-swap refuses what is not.            *)
(***************************************************************************)
EXTENDS EconomicStory, SequenceTheorems, TLAPS

\* What is said of one document of the Story, and of two that follow each other.
Told(d) ==
    d.status \in Earned =>
        /\ Present(d.evidence.run)
        /\ \E i \in d.cited :
              /\ i.run = d.evidence.run
              /\ i.contract = "INDEPENDENT_CORROBORATION" /\ i.read.outcome = "SUPPORTED"
              /\ d.evidence.facts \subseteq i.read.evidence.facts
              /\ Comparable(i.read.evidence.facts) \subseteq Agrees
              /\ i.read.evidence.links = {}
Follows(old, new) ==
    LET q == old.evidence.run
        r == new.evidence.run
    IN /\ Fingerprint(new) # Fingerprint(old) /\ new.transition # "FIRST_OBSERVATION"
       /\ new.status \in {"RESOLVED", "PERSISTENT", "WORSENING", "IMPROVING"}
             \/ new.transition = "REOPENED" =>
          /\ Window[q].to < Window[r].from
          /\ Window[q].to - Window[q].from = Window[r].to - Window[r].from
          /\ Corroborated(new.evidence.facts) /\ Comparable(new.evidence.facts) \subseteq Agrees
       /\ new.status = "RESOLVED" => ~Present(r)
       /\ new.status = "WORSENING" => Change[r] < Change[q]
       /\ new.status = "IMPROVING" => Change[r] > Change[q]
       /\ old.status = "RESOLVED" /\ new.status \in Earned => new.transition = "REOPENED"

\* Every interpretation says what follows from its evidence.
Concluded ==
    \A r \in Runs, c \in Contracts : \A k \in DOMAIN interpretations[r][c] :
        interpretations[r][c][k].outcome = Outcome(c, interpretations[r][c][k].evidence)

StoryTold ==
    \A k \in 1 .. Len(story) : Told(story[k]) /\ (k >= 2 => Follows(story[k - 1], story[k]))

\* An assessment that can still be stored was made on other evidence than the last.
AssessOk(call) ==
    LET past == interpretations[call.run][call.contract] IN
    call.op = "assess" =>
        /\ hypotheses[call.run][call.contract] # None
        /\ call.read.outcome = Outcome(call.contract, call.read.evidence)
        /\ call.base <= Len(past) + 1
        /\ call.base = Len(past) + 1 /\ past # <<>> => Last(past).evidence # call.read.evidence

\* What was gathered is still retained.
GatherOk(call) ==
    call.op = "gather" =>
        /\ call.reading.base <= Len(story)
        /\ call.reading.facts \subseteq retained[call.reading.run]

\* A document about to be written follows the revision it was composed on.
WriteOk(call) ==
    LET base == call.document.evidence.base IN
    call.op = "write" =>
        /\ Told(call.document) /\ base <= Len(story)
        /\ base # 0 => Follows(story[base], call.document)

PendingOk(s) == pending[s] # None => AssessOk(pending[s]) /\ GatherOk(pending[s]) /\ WriteOk(pending[s])

Inv ==
    /\ TypeOK /\ HypothesesReadBack /\ Concluded /\ StoryTold
    /\ \A s \in Sessions : PendingOk(s)

-----------------------------------------------------------------------------
\* Comparable evidence of one that is supported agrees, and nothing challenges it.
LEMMA OutcomeEarned ==
    ASSUME NEW e, Outcome("INDEPENDENT_CORROBORATION", e) = "SUPPORTED"
    PROVE  Comparable(e.facts) \subseteq Agrees /\ e.links = {}
<1> DEFINE c == "INDEPENDENT_CORROBORATION"
           comparable == Comparable(e.usable \cap Qualified)
<1>1. Conclusion(c, e) = "SUPPORTED" /\ ~ SupportBarred(e)
    BY DEF Outcome
<1>2. {o \in comparable \ Agrees : Independence[o] = "INDEPENDENT"} = {}
    BY <1>1 DEF Conclusion
<1>3. /\ ~ BothBarred(e) /\ e.links = {} /\ e.usable \subseteq Qualified
      /\ \A o \in comparable \ Agrees : Independence[o] = "INDEPENDENT"
    BY <1>1 DEF SupportBarred
<1>4. e.usable = e.facts
    BY <1>3 DEF BothBarred
<1>5. comparable = Comparable(e.facts)
    BY <1>3, <1>4 DEF Comparable
<1> QED  BY <1>2, <1>3, <1>5

LEMMA OutcomeType == ASSUME NEW c, NEW e PROVE Outcome(c, e) \in Outcomes
<1>1. Conclusion(c, e) \in Outcomes
    BY DEF Conclusion, Outcomes
<1> QED  BY <1>1 DEF Outcome, Outcomes

LEMMA SeenType ==
    ASSUME TypeOK, NEW r \in Runs PROVE Evidence(r) \in Seen
<1>1. observed \in Seq(Runs) /\ retained[r] \in SUBSET Others /\ Usable(r) \in SUBSET Others
    BY DEF TypeOK, Usable
<1>2. challenged \cap {r, Finding} \in SUBSET (Runs \cup {Finding})
    BY DEF TypeOK
<1> QED  BY <1>1, <1>2 DEF Evidence, Seen

\* The next verdict on the Story follows the one before.
LEMMA LifecycleFollows ==
    ASSUME NEW old \in Document, NEW reading \in Reading, NEW found,
           NEW cited, NEW valid, valid = Valid(reading, found),
           NEW new, new = [evidence |-> reading, cited |-> cited,
                           status |-> Lifecycle(old, reading.run, valid).status,
                           transition |-> Lifecycle(old, reading.run, valid).transition],
           Fingerprint(new) # Fingerprint(old)
    PROVE  /\ Follows(old, new)
           /\ new.status \in Earned => valid /\ Present(reading.run)
           /\ new.status \in Statuses /\ new.transition \in Transitions
<1> DEFINE q == old.evidence.run
           r == reading.run
           ordered == q # r /\ NextPeriod(q, r)
           plain == IF valid /\ Present(r) THEN "SUPPORTED" ELSE "INVESTIGATING"
           compared == IF Change[r] = Change[q] THEN "PERSISTENT"
                       ELSE IF Change[r] < Change[q] THEN "WORSENING" ELSE "IMPROVING"
           returns == valid /\ ordered /\ Present(r) /\ old.status = "RESOLVED"
           t == IF returns THEN "REOPENED"
                ELSE IF q = r THEN "REASSESSMENT"
                ELSE IF ordered THEN "COMPARABLE_PERIOD" ELSE "NOT_COMPARABLE"
           u == IF valid /\ ordered
                THEN IF ~Present(r) THEN "RESOLVED"
                     ELSE IF returns \/ ~Present(q) \/ old.status = "INVESTIGATING" THEN plain
                     ELSE compared
                ELSE IF ~Present(r) \/ old.status = "RESOLVED" THEN "INVESTIGATING" ELSE plain
<1>1. new.evidence = reading /\ new.status = u /\ new.transition = t
    BY DEF Lifecycle
<1>2. q \in Runs /\ r \in Runs
    BY DEF Document, Reading
<1>3. Change[q] \in Int /\ Change[r] \in Int
    BY <1>2, StoryAssumption
<1>4. ordered => /\ Window[q].to < Window[r].from
                 /\ Window[q].to - Window[q].from = Window[r].to - Window[r].from
    BY DEF NextPeriod
<1>5. valid => Corroborated(reading.facts) /\ Comparable(reading.facts) \subseteq Agrees
    BY DEF Valid
<1> HIDE DEF q, r, ordered
<1>6. t # "FIRST_OBSERVATION" /\ t \in Transitions /\ (t = "REOPENED" => valid /\ ordered)
    BY DEF Transitions
<1>7. u \in {"RESOLVED", "PERSISTENT", "WORSENING", "IMPROVING"} => valid /\ ordered
    OBVIOUS
<1>8. u = "RESOLVED" => ~Present(r)
    OBVIOUS
<1>9. (u = "WORSENING" => Change[r] < Change[q]) /\ (u = "IMPROVING" => Change[r] > Change[q])
    BY <1>3
<1>10. old.status = "RESOLVED" /\ u \in Earned => t = "REOPENED"
    BY DEF Earned
<1>11. u \in Statuses /\ (u \in Earned => valid /\ Present(r))
    BY DEF Statuses, Earned
<1> HIDE DEF t, u
<1>12. Follows(old, new)
    BY <1>1, <1>4, <1>5, <1>6, <1>7, <1>8, <1>9, <1>10 DEF Follows, q, r
<1> QED  BY <1>1, <1>6, <1>11, <1>12 DEF r

\* What is composed is a document, told of its evidence, that follows the last revision.
LEMMA ComposedOk ==
    ASSUME Inv, NEW reading \in Reading, reading.base <= Len(story),
           reading.facts \subseteq retained[reading.run], AssessedNow(reading.run),
           NEW d, d = Composed(reading, CitedOf(reading.run)),
           IF reading.base = 0
           THEN Valid(reading, CitedOf(reading.run)) /\ Present(reading.run)
           ELSE Fingerprint(d) # Fingerprint(story[reading.base])
    PROVE  /\ d \in Document /\ Told(d) /\ d.evidence = reading
           /\ reading.base # 0 => Follows(story[reading.base], d)
<1> DEFINE r == reading.run
           found == CitedOf(r)
           n == reading.base
           old == story[n]
           valid == Valid(reading, found)
           cited == IF found = {} /\ n # 0 THEN old.cited ELSE found
           next == IF n = 0 THEN [status |-> "SUPPORTED", transition |-> "FIRST_OBSERVATION"]
                   ELSE Lifecycle(old, r, valid)
<1>1. d = [evidence |-> reading, cited |-> cited, status |-> next.status, transition |-> next.transition]
    BY Zenon DEF Composed
<1>2. d.evidence = reading /\ d.cited = cited /\ d.status = next.status /\ d.transition = next.transition
    <2> HIDE DEF cited, next
    <2> QED  BY <1>1
<1>3. r \in Runs /\ n \in Nat /\ reading.facts \in SUBSET Others
    BY DEF Reading
<1>4. story \in Seq(Document) /\ TypeOK
    BY DEF Inv, TypeOK
<1>5. n # 0 => n \in 1 .. Len(story) /\ old \in Document
    BY <1>3, <1>4
<1>6. found \in SUBSET Cited
    <2>1. ASSUME NEW c \in Contracts, hypotheses[r][c] # None PROVE Latest(r, c) \in Cited
        <3>1. interpretations[r][c] \in Seq(Interpretation) /\ interpretations[r][c] # <<>>
            BY <1>3, <1>4, <2>1 DEF AssessedNow, TypeOK
        <3>2. Last(interpretations[r][c]) \in Interpretation /\ Len(interpretations[r][c]) \in Nat
            BY <3>1 DEF Last
        <3> QED  BY <1>3, <3>2 DEF Latest, Cited
    <2> QED  BY <2>1 DEF CitedOf
<1>7. cited \in SUBSET Cited
    <2>1. n # 0 => old.cited \in SUBSET Cited
        BY <1>5 DEF Document
    <2> HIDE DEF old, found, n
    <2> QED  BY <1>6, <2>1
<1>8. d.status \in Statuses /\ d.transition \in Transitions /\ (d.status \in Earned => valid /\ Present(r))
      /\ (n # 0 => Follows(old, d))
    <2>1. CASE n = 0
        <3>1. d.status = "SUPPORTED" /\ d.transition = "FIRST_OBSERVATION"
            BY <1>2, <2>1
        <3> QED  BY <2>1, <3>1 DEF Statuses, Earned, Transitions
    <2>2. CASE n # 0
        <3>1. next = Lifecycle(old, r, valid) /\ old \in Document
            BY <1>5, <2>2
        <3>2. Fingerprint(d) # Fingerprint(old)
            BY <2>2
        <3>3. d = [evidence |-> reading, cited |-> cited, status |-> Lifecycle(old, reading.run, valid).status,
                   transition |-> Lifecycle(old, reading.run, valid).transition]
            BY <1>1, <3>1
        <3> HIDE DEF old, cited, next
        <3> QED  BY <2>2, <3>1, <3>2, <3>3, LifecycleFollows
    <2> QED  BY <2>1, <2>2
<1>9. Told(d)
    <2>1. SUFFICES ASSUME d.status \in Earned
          PROVE  \E i \in d.cited : /\ i.run = r
                    /\ i.contract = "INDEPENDENT_CORROBORATION" /\ i.read.outcome = "SUPPORTED"
                    /\ reading.facts \subseteq i.read.evidence.facts
                    /\ Comparable(i.read.evidence.facts) \subseteq Agrees
                    /\ i.read.evidence.links = {}
        BY <1>2, <1>8 DEF Told
    <2>2. PICK i \in found : i.contract = "INDEPENDENT_CORROBORATION" /\ i.read.outcome = "SUPPORTED"
        BY <1>8, <2>1 DEF Valid
    <2>3. PICK c \in Contracts : hypotheses[r][c] # None /\ i = Latest(r, c)
        BY <2>2 DEF CitedOf
    <2> DEFINE past == interpretations[r][c]
    <2>4. /\ past # <<>> /\ SameSource(Last(past).evidence, Evidence(r))
          /\ past \in Seq(Interpretation)
        BY <1>3, <1>4, <2>3 DEF AssessedNow, TypeOK
    <2>5. Last(past) = past[Len(past)] /\ Len(past) \in DOMAIN past
        BY <2>4 DEF Last
    <2>6. Last(past).outcome = Outcome(c, Last(past).evidence)
        BY <1>3, <2>3, <2>5 DEF Inv, Concluded
    <2>7. Last(past).evidence.facts = retained[r]
        BY <2>4 DEF SameSource, Evidence
    <2> HIDE DEF past
    <2>8. i.run = r /\ i.contract = c /\ i.read = Last(past)
        BY <2>3 DEF Latest, past
    <2>9. Comparable(i.read.evidence.facts) \subseteq Agrees /\ i.read.evidence.links = {}
        BY <2>2, <2>6, <2>8, OutcomeEarned
    <2>10. i \in d.cited
        BY <1>2, <2>2
    <2>11. reading.facts \subseteq i.read.evidence.facts
        BY <2>7, <2>8
    <2> QED  BY <2>2, <2>8, <2>9, <2>10, <2>11
<1>10. d \in Document
    <2> HIDE DEF cited, next
    <2> QED  BY <1>1, <1>2, <1>7, <1>8 DEF Document
<1> QED  BY <1>2, <1>8, <1>9, <1>10

\* A call stays in order while the tables only grow.
LEMMA PendingKept ==
    ASSUME TypeOK, NEW s \in Sessions, PendingOk(s), pending'[s] = pending[s], pending[s] \in Calls \cup {None},
           \A r \in Runs : retained[r] \subseteq retained'[r],
           \A r \in Runs, c \in Contracts :
                /\ hypotheses[r][c] # None => hypotheses'[r][c] # None
                /\ \/ interpretations'[r][c] = interpretations[r][c]
                   \/ Len(interpretations'[r][c]) \in Nat /\ Len(interpretations'[r][c]) > Len(interpretations[r][c]),
           Len(story) \in Nat, Len(story') \in Nat, Len(story) <= Len(story'),
           \A k \in 1 .. Len(story) : story'[k] = story[k]
    PROVE  PendingOk(s)'
<1> SUFFICES ASSUME pending[s] # None
             PROVE  AssessOk(pending[s])' /\ GatherOk(pending[s])' /\ WriteOk(pending[s])'
    BY DEF PendingOk
<1> DEFINE call == pending[s]
<1>1. call \in Calls /\ AssessOk(call) /\ GatherOk(call) /\ WriteOk(call)
    BY DEF PendingOk
<1>2. ASSUME call.op = "assess"
      PROVE  LET past == interpretations'[call.run][call.contract] IN
             /\ hypotheses'[call.run][call.contract] # None
             /\ call.read.outcome = Outcome(call.contract, call.read.evidence)
             /\ call.base <= Len(past) + 1
             /\ call.base = Len(past) + 1 /\ past # <<>> => Last(past).evidence # call.read.evidence
    <2> DEFINE r == call.run
               c == call.contract
    <2>1. r \in Runs /\ c \in Contracts /\ call.base \in Nat
        BY <1>1, <1>2 DEF Calls
    <2>2. /\ hypotheses[r][c] # None /\ call.read.outcome = Outcome(c, call.read.evidence)
          /\ call.base <= Len(interpretations[r][c]) + 1
          /\ call.base = Len(interpretations[r][c]) + 1 /\ interpretations[r][c] # <<>>
                => Last(interpretations[r][c]).evidence # call.read.evidence
        BY <1>1, <1>2 DEF AssessOk
    <2>3. Len(interpretations[r][c]) \in Nat
        BY <2>1 DEF TypeOK
    <2>4. \/ interpretations'[r][c] = interpretations[r][c]
          \/ Len(interpretations'[r][c]) \in Nat /\ Len(interpretations'[r][c]) > Len(interpretations[r][c])
        BY <2>1
    <2>5. hypotheses'[r][c] # None
        BY <2>1, <2>2
    <2> HIDE DEF r, c
    <2>6. CASE interpretations'[r][c] = interpretations[r][c]
        BY <2>2, <2>5, <2>6 DEF r, c
    <2>7. CASE Len(interpretations'[r][c]) \in Nat /\ Len(interpretations'[r][c]) > Len(interpretations[r][c])
        <3>1. call.base < Len(interpretations'[r][c]) + 1
            <4> DEFINE b == call.base
                       n == Len(interpretations[r][c])
                       m == Len(interpretations'[r][c])
            <4>1. b \in Nat /\ n \in Nat /\ m \in Nat /\ b <= n + 1 /\ m > n
                BY <2>1, <2>2, <2>3, <2>7
            <4> HIDE DEF b, n, m
            <4>2. b < m + 1
                BY <4>1
            <4> QED  BY <4>2 DEF b, m
        <3>2. ~ (call.base = Len(interpretations'[r][c]) + 1) /\ call.base <= Len(interpretations'[r][c]) + 1
            BY <2>1, <2>7, <3>1
        <3> QED  BY <2>2, <2>5, <3>2 DEF r, c
    <2> QED  BY <2>4, <2>6, <2>7
<1>3. ASSUME call.op = "gather"
      PROVE  call.reading.base <= Len(story') /\ call.reading.facts \subseteq retained'[call.reading.run]
    <2>1. call.reading \in Reading
        BY <1>1, <1>3 DEF Calls
    <2>2. call.reading.run \in Runs /\ call.reading.base \in Nat
        BY <2>1 DEF Reading
    <2> QED  BY <1>1, <1>3, <2>2 DEF GatherOk
<1>4. ASSUME call.op = "write"
      PROVE  LET base == call.document.evidence.base IN
             Told(call.document) /\ base <= Len(story') /\ (base # 0 => Follows(story'[base], call.document))
    <2>1. call.document.evidence \in Reading
        BY <1>1, <1>4 DEF Calls, Document
    <2>2. call.document.evidence.base \in Nat
        BY <2>1 DEF Reading
    <2> QED  BY <1>1, <1>4, <2>2 DEF WriteOk
<1> HIDE DEF call
<1>5. pending'[s] = call
    BY DEF call
<1> QED  BY <1>2, <1>3, <1>4, <1>5 DEF AssessOk, GatherOk, WriteOk, call

-----------------------------------------------------------------------------
LEMMA Starts == Init => Inv
<1> SUFFICES ASSUME Init PROVE Inv
    OBVIOUS
<1>1. TypeOK
    BY DEF Init, TypeOK
<1>2. HypothesesReadBack /\ Concluded /\ StoryTold
    BY DEF Init, HypothesesReadBack, Concluded, StoryTold
<1> QED  BY <1>1, <1>2 DEF Init, Inv, PendingOk

\* What holds of tables that stay.
LEMMA TablesKept ==
    ASSUME Inv, UNCHANGED <<hypotheses, interpretations, story>>
    PROVE  HypothesesReadBack' /\ Concluded' /\ StoryTold'
BY DEF Inv, HypothesesReadBack, Concluded, StoryTold

\* Evidence only gains.
LEMMA EvidenceInv ==
    ASSUME Inv, TypeOK', UNCHANGED <<hypotheses, interpretations, story, pending>>,
           \A r \in Runs : retained[r] \subseteq retained'[r]
    PROVE  Inv'
<1>1. TypeOK /\ Len(story) \in Nat
    BY DEF Inv, TypeOK
<1>2. ASSUME NEW s \in Sessions PROVE PendingOk(s)'
    BY <1>1, PendingKept DEF Inv, TypeOK
<1> QED  BY <1>2, TablesKept DEF Inv

LEMMA ObserveInv == ASSUME Inv, NEW r \in Runs, Observe(r) PROVE Inv'
<1>1. observed' = Append(observed, r) /\ UNCHANGED <<retained, changed, challenged, hypotheses, interpretations, story, pending>>
    BY DEF Observe
<1>2. TypeOK'
    BY <1>1 DEF Inv, TypeOK
<1> QED  BY <1>1, <1>2, EvidenceInv

LEMMA CanonicaliseInv == ASSUME Inv, NEW r \in Runs, NEW o \in Others, Canonicalise(r, o) PROVE Inv'
<1>1. /\ retained' = [retained EXCEPT ![r] = @ \cup {o}]
      /\ UNCHANGED <<observed, changed, challenged, hypotheses, interpretations, story, pending>>
    BY DEF Canonicalise
<1>2. TypeOK'
    BY <1>1 DEF Inv, TypeOK
<1>3. \A q \in Runs : retained[q] \subseteq retained'[q]
    BY <1>1 DEF Inv, TypeOK
<1> QED  BY <1>1, <1>2, <1>3, EvidenceInv

LEMMA ChangeSignalInv == ASSUME Inv, NEW r \in Runs, NEW f \in Others \cup {None}, ChangeSignal(r, f) PROVE Inv'
<1>1. /\ changed' = changed \cup {<<r, f>>}
      /\ UNCHANGED <<observed, retained, challenged, hypotheses, interpretations, story, pending>>
    BY DEF ChangeSignal
<1>2. TypeOK'
    BY <1>1 DEF Inv, TypeOK
<1> QED  BY <1>1, <1>2, EvidenceInv

LEMMA ChallengeInv == ASSUME Inv, NEW p \in Runs \cup {Finding}, Challenge(p) PROVE Inv'
<1>1. /\ challenged' = challenged \cup {p}
      /\ UNCHANGED <<observed, retained, changed, hypotheses, interpretations, story, pending>>
    BY DEF Challenge
<1>2. TypeOK'
    BY <1>1 DEF Inv, TypeOK
<1> QED  BY <1>1, <1>2, EvidenceInv

\* Hypotheses that are new have no past.
LEMMA GenerateInv == ASSUME Inv, NEW r \in Runs, Generate(r) PROVE Inv'
<1> DEFINE h == hypotheses[r]
           first == [revision |-> 1, status |-> "GENERATED"]
           new == [c \in Contracts |-> IF h[c] = None THEN first ELSE h[c]]
<1>1. hypotheses' = [hypotheses EXCEPT ![r] = new] /\ UNCHANGED <<evidence, interpretations, story, pending>>
    BY DEF Generate
<1>2. hypotheses \in [Runs -> [Contracts -> HypothesisRow \cup {None}]] /\ first \in HypothesisRow /\ first # None
    BY StoryAssumption DEF Inv, TypeOK, HypothesisRow
<1>3. h \in [Contracts -> HypothesisRow \cup {None}]
    BY <1>2
<1>4. new \in [Contracts -> HypothesisRow \cup {None}]
    BY <1>2, <1>3
<1>5. first.revision = 1 /\ first.status = "GENERATED"
    OBVIOUS
<1>6. \A c \in Contracts : new[c] = IF h[c] = None THEN first ELSE h[c]
    OBVIOUS
<1> HIDE DEF first, new
<1>7. hypotheses' \in [Runs -> [Contracts -> HypothesisRow \cup {None}]]
    BY <1>1, <1>2, <1>4
<1>8. \A q \in Runs : hypotheses'[q] = IF q = r THEN new ELSE hypotheses[q]
    BY <1>1, <1>2
<1>9. \A q \in Runs, c \in Contracts :
        \/ hypotheses'[q][c] = hypotheses[q][c]
        \/ hypotheses[q][c] = None /\ hypotheses'[q][c] = first
    BY <1>6, <1>8
<1>10. TypeOK'
    BY <1>1, <1>7 DEF Inv, TypeOK, evidence
<1>11. HypothesesReadBack'
    <2>1. ASSUME NEW q \in Runs, NEW c \in Contracts
          PROVE  LET g == hypotheses'[q][c]
                     past == interpretations[q][c]
                 IN /\ g = None => past = <<>>
                    /\ g # None => /\ g.revision = Len(past) + 1
                                   /\ g.status = IF past = <<>> THEN "GENERATED" ELSE Last(past).outcome
                    /\ \A k \in 2 .. Len(past) : past[k].evidence # past[k - 1].evidence
        <3>1. CASE hypotheses'[q][c] = hypotheses[q][c]
            BY <3>1 DEF Inv, HypothesesReadBack
        <3>2. CASE hypotheses[q][c] = None /\ hypotheses'[q][c] = first
            <4>1. interpretations[q][c] = <<>>
                BY <3>2 DEF Inv, HypothesesReadBack
            <4>2. Len(interpretations[q][c]) = 0
                BY <4>1
            <4> QED  BY <1>2, <1>5, <3>2, <4>1, <4>2
        <3> QED  BY <1>9, <3>1, <3>2
    <2> QED  BY <1>1, <2>1 DEF HypothesesReadBack
<1>12. Concluded' /\ StoryTold'
    BY <1>1 DEF Inv, Concluded, StoryTold
<1>13. ASSUME NEW s \in Sessions PROVE PendingOk(s)'
    <2>1. \A q \in Runs, c \in Contracts : hypotheses[q][c] # None => hypotheses'[q][c] # None
        BY <1>9
    <2>2. TypeOK /\ Len(story) \in Nat /\ PendingOk(s) /\ pending[s] \in Calls \cup {None}
        BY DEF Inv, TypeOK
    <2>3. pending'[s] = pending[s] /\ UNCHANGED <<retained, interpretations, story>>
        BY <1>1 DEF evidence
    <2> QED  BY <2>1, <2>2, <2>3, PendingKept
<1> QED  BY <1>10, <1>11, <1>12, <1>13 DEF Inv

\* A step of one call that leaves the tables keeps the invariant if the call is in order.
LEMMA CallInv ==
    ASSUME Inv, NEW s \in Sessions, NEW call \in Calls \cup {None}, Goes(s, call),
           call # None => AssessOk(call) /\ GatherOk(call) /\ WriteOk(call),
           UNCHANGED <<evidence, hypotheses, interpretations, story>>
    PROVE  Inv'
<1>1. pending' = [pending EXCEPT ![s] = call] /\ pending \in [Sessions -> Calls \cup {None}]
    BY DEF Goes, Inv, TypeOK
<1>2. TypeOK'
    BY <1>1 DEF Inv, TypeOK, evidence
<1>3. ASSUME NEW d \in Sessions PROVE PendingOk(d)'
    <2>1. CASE d = s
        <3>1. pending'[s] = call
            BY <1>1
        <3> HIDE DEF Inv
        <3> QED  BY <2>1, <3>1 DEF PendingOk, AssessOk, GatherOk, WriteOk, evidence
    <2>2. CASE d # s
        <3>1. pending'[d] = pending[d] /\ TypeOK /\ Len(story) \in Nat
            BY <1>1, <2>2 DEF Inv, TypeOK
        <3>2. UNCHANGED retained
            BY DEF evidence
        <3> QED  BY <3>1, <3>2, PendingKept DEF Inv, TypeOK
    <2> QED  BY <2>1, <2>2
<1> QED  BY <1>2, <1>3, TablesKept DEF Inv

LEMMA AbandonInv == ASSUME Inv, NEW s \in Sessions, Abandon(s) PROVE Inv'
<1>1. Goes(s, None) /\ UNCHANGED <<evidence, hypotheses, interpretations, story>>
    BY DEF Abandon
<1> QED  BY <1>1, CallInv

LEMMA GatherInv == ASSUME Inv, NEW s \in Sessions, NEW r \in Runs, Gather(s, r) PROVE Inv'
<1> DEFINE reading == [run |-> r, base |-> Len(story), finding |-> observed,
                       facts |-> retained[r], links |-> challenged \cap {r, Finding}]
           call == [op |-> "gather", reading |-> reading]
<1>1. Goes(s, call) /\ UNCHANGED <<evidence, hypotheses, interpretations, story>>
    BY DEF Gather
<1>2. reading \in Reading /\ reading.base = Len(story) /\ reading.facts = retained[r] /\ reading.run = r
    <2>1. /\ Len(story) \in Nat /\ observed \in Seq(Runs) /\ retained[r] \in SUBSET Others
          /\ challenged \cap {r, Finding} \in SUBSET (Runs \cup {Finding})
        BY DEF Inv, TypeOK
    <2> QED  BY <2>1 DEF Reading
<1> HIDE DEF reading
<1>3. call \in Calls /\ call.op = "gather" /\ call.reading = reading
    BY <1>2 DEF Calls
<1> HIDE DEF call
<1>4. Len(story) \in Nat
    BY DEF Inv, TypeOK
<1>5. AssessOk(call) /\ GatherOk(call) /\ WriteOk(call)
    BY <1>2, <1>3, <1>4 DEF AssessOk, GatherOk, WriteOk
<1> QED  BY <1>1, <1>3, <1>5, CallInv

\* An assessment reads evidence that its last interpretation does not have.
LEMMA AssessInv ==
    ASSUME Inv, NEW s \in Sessions, NEW r \in Runs, NEW c \in Contracts, Assess(s, r, c) PROVE Inv'
<1> DEFINE past == interpretations[r][c]
           e == Evidence(r)
           read == [evidence |-> e, outcome |-> Outcome(c, e)]
           base == hypotheses[r][c].revision
           call == [op |-> "assess", run |-> r, contract |-> c, base |-> base, read |-> read]
<1>1. Goes(s, call) /\ UNCHANGED <<evidence, hypotheses, interpretations, story>>
    BY DEF Assess
<1>2. hypotheses[r][c] # None /\ (past # <<>> => Last(past).evidence # e)
    BY DEF Assess
<1>3. TypeOK /\ base = Len(past) + 1 /\ base \in Nat
    BY <1>2 DEF Inv, TypeOK, HypothesesReadBack, HypothesisRow
<1>4. e \in Seen /\ Outcome(c, e) \in Outcomes
    BY <1>3, SeenType, OutcomeType
<1> HIDE DEF e, base
<1>5. read \in Interpretation /\ read.evidence = e /\ read.outcome = Outcome(c, e)
    BY <1>4 DEF Interpretation
<1> HIDE DEF read
<1>6. call \in Calls /\ call.op = "assess" /\ call.run = r /\ call.contract = c /\ call.base = base /\ call.read = read
    BY <1>3, <1>5 DEF Calls
<1> HIDE DEF call
<1>7. AssessOk(call) /\ GatherOk(call) /\ WriteOk(call)
    BY <1>2, <1>3, <1>5, <1>6 DEF AssessOk, GatherOk, WriteOk
<1> QED  BY <1>1, <1>6, <1>7, CallInv

\* What is stored is the next interpretation, on other evidence than the last.
LEMMA StoreInterpretationInv ==
    ASSUME Inv, NEW s \in Sessions, StoreInterpretation(s) PROVE Inv'
<1> DEFINE call == pending[s]
           r == pending[s].run
           c == pending[s].contract
           past == interpretations[r][c]
           read == pending[s].read
           base == pending[s].base
           row == [revision |-> base + 1, status |-> read.outcome]
           next == Append(past, read)
<1>1. /\ call # None /\ call.op = "assess" /\ Len(past) + 1 = base /\ hypotheses[r][c].revision = base
      /\ interpretations' = [interpretations EXCEPT ![r][c] = next]
      /\ hypotheses' = [hypotheses EXCEPT ![r][c] = row]
      /\ pending' = [pending EXCEPT ![s] = None] /\ UNCHANGED <<evidence, story>>
    BY DEF StoreInterpretation, Calling, Goes
<1>2. TypeOK /\ call \in Calls /\ AssessOk(call)
    BY <1>1 DEF Inv, TypeOK, PendingOk
<1>3. /\ r \in Runs /\ c \in Contracts /\ base \in Nat /\ read \in Interpretation
      /\ read.outcome = Outcome(c, read.evidence) /\ (past # <<>> => Last(past).evidence # read.evidence)
      /\ hypotheses[r][c] # None
    BY <1>1, <1>2 DEF Calls, AssessOk
<1>4. /\ hypotheses \in [Runs -> [Contracts -> HypothesisRow \cup {None}]]
      /\ interpretations \in [Runs -> [Contracts -> Seq(Interpretation)]]
      /\ pending \in [Sessions -> Calls \cup {None}] /\ story \in Seq(Document)
    BY <1>2 DEF TypeOK
<1>5. row \in HypothesisRow /\ row # None /\ row.revision = base + 1 /\ row.status = read.outcome
    BY <1>3, StoryAssumption DEF HypothesisRow, Interpretation
<1>6. past \in Seq(Interpretation) /\ Len(past) \in Nat
    BY <1>3, <1>4
<1> HIDE DEF call, r, c, past, read, base, row
<1>7. /\ next \in Seq(Interpretation) /\ Len(next) = Len(past) + 1 /\ next[Len(past) + 1] = read
      /\ \A k \in 1 .. Len(past) : next[k] = past[k]
      /\ next # <<>> /\ Last(next) = read
    <2>1. /\ next \in Seq(Interpretation) /\ Len(next) = Len(past) + 1 /\ next[Len(past) + 1] = read
          /\ \A k \in 1 .. Len(past) : next[k] = past[k]
        BY <1>3, <1>6
    <2>2. next # <<>> /\ Last(next) = read
        BY <1>6, <2>1 DEF Last
    <2> QED  BY <2>1, <2>2
<1> HIDE DEF next
<1>8. /\ interpretations' \in [Runs -> [Contracts -> Seq(Interpretation)]]
      /\ hypotheses' \in [Runs -> [Contracts -> HypothesisRow \cup {None}]]
    BY <1>1, <1>3, <1>4, <1>5, <1>7
<1>9. \A q \in Runs, d \in Contracts :
        /\ interpretations'[q][d] = (IF q = r /\ d = c THEN next ELSE interpretations[q][d])
        /\ hypotheses'[q][d] = (IF q = r /\ d = c THEN row ELSE hypotheses[q][d])
    BY <1>1, <1>3, <1>4
<1>10. TypeOK'
    <2>1. pending' \in [Sessions -> Calls \cup {None}]
        BY <1>1, <1>4
    <2> QED  BY <1>1, <1>2, <1>8, <2>1 DEF TypeOK, evidence
<1>11. HypothesesReadBack'
    <2>1. ASSUME NEW q \in Runs, NEW d \in Contracts
          PROVE  LET g == hypotheses'[q][d]
                     was == interpretations'[q][d]
                 IN /\ g = None => was = <<>>
                    /\ g # None => /\ g.revision = Len(was) + 1
                                   /\ g.status = IF was = <<>> THEN "GENERATED" ELSE Last(was).outcome
                    /\ \A k \in 2 .. Len(was) : was[k].evidence # was[k - 1].evidence
        <3>1. CASE q = r /\ d = c
            <4>1. ASSUME NEW k \in 2 .. Len(next) PROVE next[k].evidence # next[k - 1].evidence
                <5>1. CASE k = Len(past) + 1
                    <6>1. past # <<>> /\ Last(past) = past[Len(past)] /\ Len(past) \in 1 .. Len(past)
                        BY <1>6, <1>7, <5>1 DEF Last
                    <6>2. next[k] = read /\ next[k - 1] = past[Len(past)]
                        BY <1>6, <1>7, <5>1, <6>1
                    <6> QED  BY <1>3, <6>1, <6>2
                <5>2. CASE k # Len(past) + 1
                    <6>1. k \in 2 .. Len(past) /\ k - 1 \in 1 .. Len(past) /\ k \in 1 .. Len(past)
                        BY <1>6, <1>7, <5>2
                    <6>2. past[k].evidence # past[k - 1].evidence
                        BY <1>3, <6>1 DEF Inv, HypothesesReadBack, past
                    <6> QED  BY <1>7, <6>1, <6>2
                <5> QED  BY <5>1, <5>2
            <4>2. hypotheses'[q][d] = row /\ interpretations'[q][d] = next
                BY <1>9, <3>1
            <4>3. row.revision = Len(next) + 1 /\ row.status = Last(next).outcome /\ next # <<>>
                BY <1>1, <1>3, <1>5, <1>6, <1>7
            <4> QED  BY <1>5, <4>1, <4>2, <4>3
        <3>2. CASE ~ (q = r /\ d = c)
            <4>1. hypotheses'[q][d] = hypotheses[q][d] /\ interpretations'[q][d] = interpretations[q][d]
                BY <1>9, <3>2
            <4> QED  BY <4>1 DEF Inv, HypothesesReadBack
        <3> QED  BY <3>1, <3>2
    <2> QED  BY <2>1 DEF HypothesesReadBack
<1>12. Concluded'
    <2>1. ASSUME NEW q \in Runs, NEW d \in Contracts, NEW k \in DOMAIN interpretations'[q][d]
          PROVE  interpretations'[q][d][k].outcome = Outcome(d, interpretations'[q][d][k].evidence)
        <3>1. CASE q = r /\ d = c
            <4>1. interpretations'[q][d] = next /\ k \in 1 .. Len(past) + 1
                BY <1>7, <1>9, <2>1, <3>1
            <4>2. CASE k = Len(past) + 1
                BY <1>3, <1>7, <3>1, <4>1, <4>2
            <4>3. CASE k # Len(past) + 1
                <5>1. k \in 1 .. Len(past) /\ k \in DOMAIN past
                    BY <1>6, <4>1, <4>3
                <5>2. past[k].outcome = Outcome(c, past[k].evidence)
                    BY <1>3, <5>1 DEF Inv, Concluded, past
                <5> QED  BY <1>7, <3>1, <4>1, <5>1, <5>2
            <4> QED  BY <4>2, <4>3
        <3>2. CASE ~ (q = r /\ d = c)
            <4>1. interpretations'[q][d] = interpretations[q][d]
                BY <1>9, <3>2
            <4> QED  BY <2>1, <4>1 DEF Inv, Concluded
        <3> QED  BY <3>1, <3>2
    <2> QED  BY <2>1 DEF Concluded
<1>13. StoryTold'
    BY <1>1 DEF Inv, StoryTold
<1>14. ASSUME NEW d \in Sessions PROVE PendingOk(d)'
    <2>1. CASE d = s
        BY <1>1, <1>4, <2>1 DEF PendingOk
    <2>2. CASE d # s
        <3>1. pending'[d] = pending[d] /\ PendingOk(d) /\ pending[d] \in Calls \cup {None}
            BY <1>1, <1>4, <2>2 DEF Inv
        <3>2. UNCHANGED <<retained, story>> /\ Len(story) \in Nat
            BY <1>1, <1>4 DEF evidence
        <3>3. ASSUME NEW q \in Runs, NEW k \in Contracts
              PROVE  /\ hypotheses[q][k] # None => hypotheses'[q][k] # None
                     /\ \/ interpretations'[q][k] = interpretations[q][k]
                        \/ /\ Len(interpretations'[q][k]) \in Nat
                           /\ Len(interpretations'[q][k]) > Len(interpretations[q][k])
            <4>1. CASE q = r /\ k = c
                <5>1. interpretations'[q][k] = next /\ hypotheses'[q][k] = row /\ interpretations[q][k] = past
                    BY <1>9, <4>1 DEF past
                <5> QED  BY <1>5, <1>6, <1>7, <5>1
            <4>2. CASE ~ (q = r /\ k = c)
                BY <1>9, <4>2
            <4> QED  BY <4>1, <4>2
        <3> QED  BY <1>2, <3>1, <3>2, <3>3, PendingKept
    <2> QED  BY <2>1, <2>2
<1> QED  BY <1>10, <1>11, <1>12, <1>13, <1>14 DEF Inv

LEMMA ComposeInv == ASSUME Inv, NEW s \in Sessions, Compose(s) PROVE Inv'
<1> DEFINE reading == pending[s].reading
           found == CitedOf(reading.run)
           d == Composed(reading, found)
           call == [op |-> "write", document |-> d]
<1>1. /\ pending[s] # None /\ pending[s].op = "gather" /\ AssessedNow(reading.run) /\ Goes(s, call)
      /\ IF reading.base = 0
         THEN Valid(reading, found) /\ Present(reading.run)
         ELSE Fingerprint(d) # Fingerprint(story[reading.base])
      /\ UNCHANGED <<evidence, hypotheses, interpretations, story>>
    BY DEF Compose, Calling
<1>2. pending[s] \in Calls /\ GatherOk(pending[s])
    BY <1>1 DEF Inv, TypeOK, PendingOk
<1>3. reading \in Reading /\ reading.base <= Len(story) /\ reading.facts \subseteq retained[reading.run]
    BY <1>1, <1>2 DEF Calls, GatherOk
<1> HIDE DEF reading
<1>4. d = Composed(reading, CitedOf(reading.run))
    OBVIOUS
<1> HIDE DEF d
<1>5. /\ d \in Document /\ Told(d) /\ d.evidence = reading
      /\ reading.base # 0 => Follows(story[reading.base], d)
    BY <1>1, <1>3, <1>4, ComposedOk
<1>6. call \in Calls /\ call.op = "write" /\ call.document = d
    BY <1>5 DEF Calls
<1> HIDE DEF call
<1>7. AssessOk(call) /\ GatherOk(call) /\ WriteOk(call)
    BY <1>3, <1>5, <1>6 DEF AssessOk, GatherOk, WriteOk
<1> QED  BY <1>1, <1>6, <1>7, CallInv

\* What is written follows the revision it replaces.
LEMMA WriteStoryInv == ASSUME Inv, NEW s \in Sessions, WriteStory(s) PROVE Inv'
<1> DEFINE d == pending[s].document
           n == Len(story)
<1>1. /\ pending[s] # None /\ pending[s].op = "write" /\ d.evidence.base = n /\ story' = Append(story, d)
      /\ pending' = [pending EXCEPT ![s] = None] /\ UNCHANGED <<evidence, hypotheses, interpretations>>
    BY DEF WriteStory, Calling, Goes
<1>2. TypeOK /\ pending[s] \in Calls /\ WriteOk(pending[s])
    BY <1>1 DEF Inv, TypeOK, PendingOk
<1>3. d \in Document /\ Told(d) /\ (n # 0 => Follows(story[n], d))
    BY <1>1, <1>2 DEF Calls, WriteOk
<1>4. story \in Seq(Document) /\ n \in Nat /\ pending \in [Sessions -> Calls \cup {None}]
    BY <1>2 DEF TypeOK
<1> HIDE DEF d
<1>5. /\ story' \in Seq(Document) /\ Len(story') = n + 1 /\ story'[n + 1] = d
      /\ \A k \in 1 .. n : story'[k] = story[k]
    BY <1>1, <1>3, <1>4
<1>6. TypeOK'
    <2>1. pending' \in [Sessions -> Calls \cup {None}]
        BY <1>1, <1>4
    <2> QED  BY <1>1, <1>2, <1>5, <2>1 DEF TypeOK, evidence
<1>7. StoryTold'
    <2>1. ASSUME NEW k \in 1 .. n + 1
          PROVE  Told(story'[k]) /\ (k >= 2 => Follows(story'[k - 1], story'[k]))
        <3>1. CASE k = n + 1
            <4>1. k >= 2 => n # 0 /\ story'[k - 1] = story[n]
                BY <1>4, <1>5, <3>1
            <4> QED  BY <1>3, <1>5, <3>1, <4>1
        <3>2. CASE k # n + 1
            <4>1. k \in 1 .. n /\ (k >= 2 => k - 1 \in 1 .. n)
                BY <1>4, <3>2
            <4>2. Told(story[k]) /\ (k >= 2 => Follows(story[k - 1], story[k]))
                BY <4>1 DEF Inv, StoryTold
            <4> QED  BY <1>5, <4>1, <4>2
        <3> QED  BY <3>1, <3>2
    <2> HIDE DEF n
    <2> QED  BY <1>5, <2>1 DEF StoryTold
<1>8. HypothesesReadBack' /\ Concluded'
    BY <1>1 DEF Inv, HypothesesReadBack, Concluded
<1>9. ASSUME NEW q \in Sessions PROVE PendingOk(q)'
    <2>1. CASE q = s
        BY <1>1, <1>4, <2>1 DEF PendingOk
    <2>2. CASE q # s
        <3>1. pending'[q] = pending[q] /\ PendingOk(q) /\ pending[q] \in Calls \cup {None}
            BY <1>1, <1>4, <2>2 DEF Inv
        <3>2. UNCHANGED <<retained, hypotheses, interpretations>>
            BY <1>1 DEF evidence
        <3>3. Len(story') \in Nat /\ n <= Len(story')
            BY <1>4, <1>5
        <3> QED  BY <1>2, <1>4, <1>5, <3>1, <3>2, <3>3, PendingKept
    <2> QED  BY <2>1, <2>2
<1> QED  BY <1>6, <1>7, <1>8, <1>9 DEF Inv

LEMMA Steps == Inv /\ [Next]_vars => Inv'
<1> SUFFICES ASSUME Inv, [Next]_vars PROVE Inv'
    OBVIOUS
<1>1. ASSUME NEW r \in Runs, Observe(r) \/ Generate(r) PROVE Inv'
    BY <1>1, ObserveInv, GenerateInv
<1>2. ASSUME NEW r \in Runs, NEW o \in Others, Canonicalise(r, o) PROVE Inv'
    BY <1>2, CanonicaliseInv
<1>3. ASSUME NEW r \in Runs, NEW f \in Others \cup {None}, ChangeSignal(r, f) PROVE Inv'
    BY <1>3, ChangeSignalInv
<1>4. ASSUME NEW p \in Runs \cup {Finding}, Challenge(p) PROVE Inv'
    BY <1>4, ChallengeInv
<1>5. ASSUME NEW s \in Sessions, NEW r \in Runs, Gather(s, r) \/ \E c \in Contracts : Assess(s, r, c) PROVE Inv'
    BY <1>5, GatherInv, AssessInv
<1>6. ASSUME NEW s \in Sessions, StoreInterpretation(s) \/ Compose(s) \/ WriteStory(s) \/ Abandon(s) PROVE Inv'
    BY <1>6, StoreInterpretationInv, ComposeInv, WriteStoryInv, AbandonInv
<1>7. CASE UNCHANGED vars
    <2>1. UNCHANGED <<observed, retained, changed, challenged, hypotheses, interpretations, story, pending>>
        BY <1>7 DEF vars
    <2>2. TypeOK'
        BY <2>1 DEF Inv, TypeOK
    <2> QED  BY <2>1, <2>2, EvidenceInv
<1> QED  BY <1>1, <1>2, <1>3, <1>4, <1>5, <1>6, <1>7 DEF Next

\* The inductive invariant behind the theorems below.
LEMMA Invariance == Spec => []Inv
<1> QED  BY Starts, Steps, PTL DEF Spec

\* Every table of hypotheses, interpretations and Stories, and every call in progress,
\* keeps its shape (hypothesis/service.py, story/service.py).
THEOREM TypeCorrect == Spec => []TypeOK
<1>1. Inv => TypeOK
    BY DEF Inv
<1> QED  BY <1>1, Invariance, PTL

\* However assessments of one Hypothesis race with each other and with its evidence, it
\* agrees with its latest interpretation, and no interpretation repeats the evidence of
\* the one before (HypothesisService.assess).
THEOREM ReadBack == Spec => []HypothesesReadBack
<1>1. Inv => HypothesesReadBack
    BY DEF Inv
<1> QED  BY <1>1, Invariance, PTL

\* However syntheses race with assessments, with each other and with the evidence, a Story
\* is supported only on a supported interpretation of its own run, made of at least the
\* Facts it retains, and its lifecycle follows from the revision before it
\* (StoryService.synthesise).
THEOREM Warranted == Spec => []StoriesAreWarranted
<1>1. Inv => StoriesAreEarned
    BY DEF Inv, StoryTold, StoriesAreEarned, Told
<1>2. Inv => LifecycleIsEarned
    <2> SUFFICES ASSUME Inv, NEW k \in 2 .. Len(story) PROVE Follows(story[k - 1], story[k])
        BY DEF LifecycleIsEarned, Follows
    <2>1. Len(story) \in Nat
        BY DEF Inv, TypeOK
    <2> QED  BY <2>1 DEF Inv, StoryTold
<1> QED  BY <1>1, <1>2, Invariance, PTL DEF StoriesAreWarranted

===================================================================================
