---------------------------- MODULE RequestStore ----------------------------
(***************************************************************************)
(* What a Database object (src/shared/Database) promises its callers.      *)
(*                                                                         *)
(* Requests handed to the delay thread are served one after the other in   *)
(* the order they were handed over.  A request takes effect in one step: a *)
(* write or a whole transaction is added to the store or dropped, a query  *)
(* reads the store as the requests before it left it and its answer is     *)
(* queued behind the earlier answers.  A direct request takes effect in    *)
(* one step too, between two of the delayed ones.                          *)
(***************************************************************************)
EXTENDS Naturals, Sequences, SequencesExt

VARIABLES
    pending,    \* delayed requests without effect yet, oldest first
    direct,     \* direct requests without effect yet
    store,      \* statements applied so far, oldest first
    answers     \* answers of the queries, oldest first

absVars == <<pending, direct, store, answers>>

AbsInit ==
    /\ pending = <<>>
    /\ direct = {}
    /\ store = <<>>
    /\ answers = <<>>

\* A caller hands a request over to the delay thread.
Submit ==
    /\ pending' # <<>>
    /\ pending' = Append(pending, Last(pending'))
    /\ UNCHANGED <<direct, store, answers>>

\* A caller starts a direct request.
SubmitDirect ==
    /\ \E op \in direct' \ direct : direct' = direct \cup {op}
    /\ UNCHANGED <<pending, store, answers>>

\* The oldest delayed write or transaction is applied as a whole, or fails.
ServeWrite ==
    /\ pending # <<>>
    /\ Head(pending).kind # "query"
    /\ pending' = Tail(pending)
    /\ store' \in {store, store \o Head(pending).stmts}
    /\ UNCHANGED <<direct, answers>>

\* The oldest delayed request is a query: it sees every request before it.
ServeQuery ==
    /\ pending # <<>>
    /\ Head(pending).kind = "query"
    /\ pending' = Tail(pending)
    /\ answers' = Append(answers,
                         [id |-> Head(pending).stmts[1], saw |-> Range(store)])
    /\ UNCHANGED <<direct, store>>

\* A direct request is applied as a whole, or fails.
ServeDirect ==
    /\ \E op \in direct :
         /\ direct' = direct \ {op}
         /\ store' \in {store, store \o op.stmts}
    /\ UNCHANGED <<pending, answers>>

AbsNext == Submit \/ SubmitDirect \/ ServeWrite \/ ServeQuery \/ ServeDirect

AbsSpec == AbsInit /\ [][AbsNext]_absVars

=============================================================================
