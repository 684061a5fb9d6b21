-------------------------- MODULE MeasurementContexts --------------------------
(***************************************************************************)
(* What an accounting figure is a measurement of, kept beside the row that *)
(* owns it and carried along to the rows derived from it: statement line,  *)
(* primitive result, Signal, canonical Fact (reasoning/measurement).       *)
(*                                                                         *)
(* Contexts and bindings are append-only and name rows by the digest they  *)
(* had.  The owning stores go on by themselves.  A call is one transaction *)
(* of its caller: it raises and leaves nothing, or commits.                *)
(***************************************************************************)
EXTENDS Integers, Sequences, FiniteSets, SequencesExt

CONSTANTS
    Slots,          \* measurements of owning rows
    Slot,           \* [Slots -> SlotFacts]
    Values,
    Runs,
    MaxContexts,    \* bounds
    MaxBindings

Resource == {"LINE", "PRIMITIVE", "SIGNAL", "FACT"}

(* `from` is the row a derived one depends on alone, if it retains that    *)
(* and is of the same metric; `declared` what the file says of a line;     *)
(* `family` its metric, entity and logical dataset; lines have no run.     *)
SlotFacts ==
    [resource : Resource, run : Runs \cup {"NONE"}, from : Slots \cup {"NONE"}, declared : Values,
     family : STRING, period : STRING]

ASSUME SlotAssumption ==
    /\ Slot \in [Slots -> SlotFacts] /\ MaxContexts \in Nat /\ MaxBindings \in Nat
    /\ \A s \in Slots : (Slot[s].resource = "LINE") <=> (Slot[s].run = "NONE")
    /\ \A s \in Slots : Slot[s].resource = "FACT" => Slot[s].from # "NONE"

VARIABLES
    rows,           \* [Slots -> what the owning row contains, or Absent]
    files,          \* [lines -> what became of the file they were read from]
    contexts,       \* measurement contexts
    contextBindings \* context bindings

measurementVars == <<rows, files, contexts, contextBindings>>

(* A row is LIVE while its status is VALID, ACTIVE or OBSERVED.            *)
Content == [value : Values, status : {"LIVE", "OTHER"}]
Absent == [value |-> 0, status |-> "ABSENT"]
Live(row) == row.status = "LIVE"
Lines == {s \in Slots : Slot[s].resource = "LINE"}
FileState == {"RETAINED", "LOST", "ALTERED"}
ContextRow ==
    [origin : Slots, row : Content, retained : BOOLEAN, run : Runs, supersedes : 0 .. MaxContexts]
ContextBinding ==
    [owner : Slots, row : Content, context : 1 .. MaxContexts, run : Runs, parent : 0 .. MaxBindings]

(* The tables keep the shape of their contracts.                           *)
MeasurementTypeOK ==
    /\ rows \in [Slots -> Content \cup {Absent}] /\ files \in [Lines -> FileState]
    /\ contexts \in Seq(ContextRow) /\ contextBindings \in Seq(ContextBinding)

MeasurementInit ==
    /\ rows = [s \in Slots |-> Absent] /\ files = [s \in Lines |-> "RETAINED"]
    /\ contexts = <<>> /\ contextBindings = <<>>

----------------------------------------------------------------------------
(* The owning stores: ingestion and the engines write rows, a Fact is made *)
(* of an active Signal and has its value, and any row but a Fact may be    *)
(* rewritten or deleted; a Fact is retired.                                *)
WriteRow(s, content) ==
    /\ Slot[s].resource # "FACT"
    /\ s \in Lines => Live(content) /\ (content.value = Slot[s].declared \/ rows[s] # Absent)
    /\ rows' = [rows EXCEPT ![s] = content]
    /\ UNCHANGED <<files, contexts, contextBindings>>

MadeOf(f) == rows[Slot[f].from]
DeleteRow(s) ==
    /\ Slot[s].resource # "FACT" /\ rows[s] # Absent
    /\ rows' = [rows EXCEPT ![s] = Absent]
    /\ UNCHANGED <<files, contexts, contextBindings>>

Canonicalise(f) ==
    /\ Slot[f].resource = "FACT" /\ rows[f] = Absent /\ Live(MadeOf(f))
    /\ rows' = [rows EXCEPT ![f] = MadeOf(f)]
    /\ UNCHANGED <<files, contexts, contextBindings>>

Retire(f) ==
    /\ Slot[f].resource = "FACT" /\ Live(rows[f])
    /\ rows' = [rows EXCEPT ![f].status = "OTHER"]
    /\ UNCHANGED <<files, contexts, contextBindings>>

ChangeFile(s, state) ==
    /\ files' = [files EXCEPT ![s] = state]
    /\ UNCHANGED <<rows, contexts, contextBindings>>

(* A row can be taken as an owner: a Fact only while it is observed and    *)
(* its Signal is what it was made of.                                      *)
Owning(s) ==
    /\ rows[s] # Absent
    /\ Slot[s].resource = "FACT" => Live(rows[s]) /\ MadeOf(s) = rows[s]

----------------------------------------------------------------------------
(* A line's context can be derived if its file, where retained, still says *)
(* what the row says; a Fact's only in the run that made it.               *)
Capturable(s, run) ==
    /\ Owning(s)
    /\ s \in Lines => \/ files[s] = "LOST"
                      \/ files[s] = "RETAINED" /\ rows[s].value = Slot[s].declared
    /\ s \notin Lines => Slot[s].run = run

ContextOf(s, run, supersedes) ==
    [origin |-> s, row |-> rows[s], retained |-> s \in Lines /\ files[s] = "RETAINED", run |-> run,
     supersedes |-> supersedes]

(* A context is current if the reader derives the same from its source.    *)
ContextCurrent(c, reader) ==
    LET x == contexts[c]  by == IF x.origin \in Lines THEN x.run ELSE reader
    IN  Capturable(x.origin, by) /\ ContextOf(x.origin, by, x.supersedes) = x

(* The binding of the row as it is now, and of no earlier form of it.      *)
Bound(s) == {b \in DOMAIN contextBindings : contextBindings[b].owner = s /\ contextBindings[b].row = rows[s]}

(* A snapshot has one authoritative context: another is refused.           *)
MayBind(s, run) == Bound(s) = {} /\ Slot[s].run \in {"NONE", run}
BindingOf(s, run, c, parent) ==
    [owner |-> s, row |-> rows[s], context |-> c, run |-> run, parent |-> parent]

Persist(s, run, supersedes) ==
    /\ MayBind(s, run)
    /\ contexts' = Append(contexts, ContextOf(s, run, supersedes))
    /\ contextBindings' = Append(contextBindings, BindingOf(s, run, Len(contexts) + 1, 0))

MayRevise(s, c) ==
    /\ Slot[contexts[c].origin].family = Slot[s].family
    /\ Slot[contexts[c].origin].period = Slot[s].period

(* A line that is bound as it is gets its context again, or is refused.    *)
CaptureAccounting(run, s, supersedes) ==
    /\ s \in Lines /\ Capturable(s, run)
    /\ supersedes # 0 => MayRevise(s, supersedes)
    /\ Persist(s, run, supersedes)
    /\ UNCHANGED <<rows, files>>

BackfillFactSlot(run, s) ==
    /\ Slot[s].resource = "FACT" /\ Capturable(s, run)
    /\ Persist(s, run, 0)
    /\ UNCHANGED <<rows, files>>

----------------------------------------------------------------------------
Chain[b \in 0 .. Len(contextBindings)] == IF b = 0 THEN {} ELSE {b} \cup Chain[contextBindings[b].parent]
Root(b) == CHOOSE r \in Chain[b] : contextBindings[r].parent = 0

(* Every measurement on the way from the origin is what it was when it was *)
(* bound.                                                                  *)
Unchanged(b) == Owning(contextBindings[b].owner) /\ rows[contextBindings[b].owner] = contextBindings[b].row

\* Mutant: only the measurement asked for and its origin are compared.
EndsResolve(b, reader) == \A x \in {b, Root(b)} : Unchanged(x)

ResolveBinding(b, reader) ==
    /\ \A x \in Chain[b] : contextBindings[x].context = contextBindings[b].context /\ Unchanged(x)
    /\ ContextCurrent(contextBindings[b].context, reader)
    /\ contextBindings[Root(b)].owner = contexts[contextBindings[b].context].origin

Edges == {<<"LINE", "PRIMITIVE">>, <<"PRIMITIVE", "SIGNAL">>, <<"SIGNAL", "FACT">>}

QualifiedEdge(parent, s) ==
    /\ <<Slot[parent].resource, Slot[s].resource>> \in Edges
    /\ Slot[s].from = parent /\ Live(rows[s])
    /\ rows[s].value = rows[parent].value

Propagate(run, b, s) ==
    /\ ResolveBinding(b, run) /\ Owning(s)
    /\ QualifiedEdge(contextBindings[b].owner, s)
    /\ MayBind(s, run)
    /\ contextBindings' = Append(contextBindings, BindingOf(s, run, contextBindings[b].context, b))
    /\ UNCHANGED <<rows, files, contexts>>

MeasurementNext ==
    \/ \E s \in Slots : DeleteRow(s) \/ \E content \in Content : WriteRow(s, content)
    \/ \E f \in Slots : Canonicalise(f) \/ Retire(f)
    \/ \E s \in Lines, state \in FileState : ChangeFile(s, state)
    \/ \E run \in Runs :
        \/ /\ Len(contexts) < MaxContexts /\ Len(contextBindings) < MaxBindings
           /\ \/ \E s \in Slots, c \in 0 .. Len(contexts) : CaptureAccounting(run, s, c)
              \/ \E s \in Slots : BackfillFactSlot(run, s)
        \/ /\ Len(contextBindings) < MaxBindings
           /\ \E b \in DOMAIN contextBindings, s \in Slots : Propagate(run, b, s)

MeasurementSpec == MeasurementInit /\ [][MeasurementNext]_measurementVars

----------------------------------------------------------------------------
(* A binding that resolves names one figure all the way: every measurement *)
(* from its row back to the origin is live and has the value of the line,  *)
(* each retained as derived from the one before (service.py:222, :252).    *)
ResolvedIsOriginal ==
    \A b \in DOMAIN contextBindings, reader \in Runs :
        ResolveBinding(b, reader) =>
            LET origin == contexts[contextBindings[b].context].origin IN
            \A x \in Chain[b] :
                LET s == contextBindings[x].owner IN
                /\ Live(rows[s]) /\ rows[s].value = rows[origin].value
                /\ s = origin \/ Slot[s].from = contextBindings[contextBindings[x].parent].owner
                /\ Slot[s].resource = "FACT" => rows[Slot[s].from] = rows[s]
                /\ s \in Lines /\ contexts[contextBindings[x].context].retained
                       => files[s] = "RETAINED" /\ rows[s].value = Slot[s].declared

(* A row is bound once in each of its forms, so at most one of its         *)
(* bindings resolves; and what supersedes measures the same family in the  *)
(* same period, all along (service.py:83, :210).                           *)
OneAuthority ==
    /\ \A s \in Slots, reader \in Runs :
        Cardinality({b \in DOMAIN contextBindings :
            contextBindings[b].owner = s /\ ResolveBinding(b, reader)}) <= 1
    /\ \A c \in DOMAIN contexts :
        LET old == contexts[c].supersedes IN
        old # 0 => old < c /\ Slot[contexts[old].origin].family = Slot[contexts[c].origin].family
                          /\ Slot[contexts[old].origin].period = Slot[contexts[c].origin].period

ContextsAreFaithful == ResolvedIsOriginal /\ OneAuthority
================================================================================
