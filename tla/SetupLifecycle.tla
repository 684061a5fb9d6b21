---------------------------- MODULE SetupLifecycle ----------------------------
(***************************************************************************)
(* What a setup draft promises an adviser: it is edited freely until it    *)
(* becomes a Business Review, once; from then on its details are those of  *)
(* the review; and when it is complete or cancelled nothing changes it.    *)
(* SetupService implements this.                                           *)
(***************************************************************************)
CONSTANTS
    Drafts,     \* setup draft identifiers
    Fields,     \* values of SetupFields
    Scoped,     \* those SetupFields.scope accepts: title, owners and period given
    Reviews,    \* engagement identifiers
    None        \* absent value

VARIABLE setup  \* setup[d]: what draft d is now

Lifecycles == {"ABSENT", "DRAFT", "REVIEW_CREATED", "COMPLETE", "CANCELLED"}

As(lifecycle, fields, review) ==
    [lifecycle |-> lifecycle, fields |-> fields, review |-> review]

Init == setup = [d \in Drafts |-> As("ABSENT", None, None)]

Becomes(d, state) == setup' = [setup EXCEPT ![d] = state]

Begin(d, f) ==
    /\ setup[d].lifecycle = "ABSENT"
    /\ Becomes(d, As("DRAFT", f, None))

Edit(d, f) ==
    /\ setup[d].lifecycle = "DRAFT"
    /\ Becomes(d, As("DRAFT", f, None))

CreateReview(d, f, e) ==
    /\ setup[d].lifecycle = "DRAFT" /\ f \in Scoped
    /\ \A other \in Drafts : setup[other].review # e
    /\ Becomes(d, As("REVIEW_CREATED", f, e))

Complete(d) ==
    /\ setup[d].lifecycle = "REVIEW_CREATED"
    /\ Becomes(d, As("COMPLETE", setup[d].fields, setup[d].review))

Cancel(d, f) ==
    /\ \/ setup[d].lifecycle = "DRAFT"
       \/ setup[d].lifecycle = "REVIEW_CREATED" /\ f = setup[d].fields
    /\ Becomes(d, As("CANCELLED", f, setup[d].review))

Next ==
    \E d \in Drafts :
        \/ \E f \in Fields :
             \/ Begin(d, f) \/ Edit(d, f) \/ Cancel(d, f)
             \/ \E e \in Reviews : CreateReview(d, f, e)
        \/ Complete(d)

Spec == Init /\ [][Next]_setup
=============================================================================
