--------------------------- MODULE ExecutionContract ---------------------------
(***************************************************************************)
(* What the execution store promises its clients, without fences, attempts *)
(* or wake rows (crates/task-runtime/src/execution_store.rs and            *)
(* docs/architecture/execution.md): an execution is opened once; while it  *)
(* is open it may be given one outcome, which is never changed; only an    *)
(* execution whose last outcome is a suspension is opened again; a         *)
(* continuation is opened in the very step that completes its parent.      *)
(***************************************************************************)
EXTENDS Sequences, Naturals

CONSTANTS
    Executions,       \* execution ids
    PlainOutcomes,    \* outcomes that name no continuation
    LinkedOutcomes    \* completed outcomes that name one, in their field next

VARIABLES
    sealed,           \* execution id -> its outcomes, in the order they were given
    open              \* the executions that have no outcome for their current run

contractVars == <<sealed, open>>

Absent(x) == x \notin open /\ sealed[x] = <<>>

Parked(x) ==
    /\ x \notin open
    /\ sealed[x] # <<>>
    /\ sealed[x][Len(sealed[x])].kind = "suspended"

ContractInit ==
    /\ sealed = [x \in Executions |-> <<>>]
    /\ open = {}

Open(x) ==
    /\ Absent(x)
    /\ open' = open \cup {x}
    /\ UNCHANGED sealed

Seal(x, outcome) ==
    /\ x \in open
    /\ sealed' = [sealed EXCEPT ![x] = Append(sealed[x], outcome)]
    /\ open' = open \ {x}

\* The parent x completes into outcome.next.
Continue(x, outcome) ==
    /\ x \in open
    /\ Absent(outcome.next)
    /\ sealed' = [sealed EXCEPT ![x] = Append(sealed[x], outcome)]
    /\ open' = (open \ {x}) \cup {outcome.next}

\* A wake resumes every execution that waits for it, or none.
Resume(X) ==
    /\ \A x \in X : Parked(x)
    /\ open' = open \cup X
    /\ UNCHANGED sealed

ContractNext ==
    \/ \E x \in Executions : Open(x)
    \/ \E x \in Executions, o \in PlainOutcomes : Seal(x, o)
    \/ \E x \in Executions, o \in LinkedOutcomes : Continue(x, o)
    \/ \E X \in SUBSET Executions : Resume(X)

ContractSpec == ContractInit /\ [][ContractNext]_contractVars
===============================================================================
