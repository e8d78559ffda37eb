--------------------------- MODULE WorkflowLedger ---------------------------
(***************************************************************************)
(* What the project runtime promises to everyone who looks at a project:   *)
(* the project is a ledger of moves.  A move is one indivisible step that  *)
(* starts where the previous one ended, and a move made through the        *)
(* workflow (by a student, a reviewer or an ordinary admin advance) takes  *)
(* one of the workflow's transitions out of the state the project is in at *)
(* that very moment.  The administrator may also put it anywhere.          *)
(*                                                                         *)
(* ProjectRuntime implements this with snapshots, decisions made elsewhere *)
(* and an optimistic commit.                                               *)
(***************************************************************************)
EXTENDS Naturals, Sequences

CONSTANTS States, InitialState, Transitions

VARIABLES
    at,      \* the state the project is in
    trail,   \* its moves, oldest first
    erased   \* the project has been deleted

ledger == <<at, trail, erased>>

Workflow == {"execute", "advance", "event"}
Override == {"rollback", "set"}

LedgerInit ==
    /\ at = InitialState
    /\ trail = << >>
    /\ erased = FALSE

Move(to, via) ==
    /\ ~erased
    /\ via \in Workflow => [from |-> at, to |-> to] \in Transitions
    /\ at' = to
    /\ trail' = Append(trail, [from |-> at, to |-> to, via |-> via])
    /\ UNCHANGED erased

Erase ==
    /\ ~erased
    /\ erased' = TRUE
    /\ trail' = << >>
    /\ UNCHANGED at

LedgerNext ==
    \/ \E to \in States, via \in Workflow \cup Override : Move(to, via)
    \/ Erase

LedgerSpec == LedgerInit /\ [][LedgerNext]_ledger
=============================================================================
