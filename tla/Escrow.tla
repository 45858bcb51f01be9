------------------------------- MODULE Escrow -------------------------------
(***************************************************************************)
(* What a betting market promises about money, with no prices, no clock    *)
(* and no storage: every round is an escrow of its own.  It takes stakes   *)
(* while open, is decided once, and from then on each user can draw what   *)
(* the decision granted, once.  Nothing is ever granted beyond what the    *)
(* round itself holds, so no round is paid out of another one.             *)
(***************************************************************************)
EXTENDS Integers, Sums

CONSTANTS NumUsers, MaxRounds

VARIABLES
  phase,   \* of each round: "none", "open", "decided" or "gone"
  pot,     \* what each round holds
  due      \* what each user may still draw from each round

escrowVars == <<phase, pot, due>>

Users == 1..NumUsers
Rounds == 1..MaxRounds

EscrowInit ==
  /\ phase = [r \in Rounds |-> "none"]
  /\ pot = [r \in Rounds |-> 0]
  /\ due = [r \in Rounds |-> [u \in Users |-> 0]]

Open(r) ==
  /\ phase[r] = "none"
  /\ phase' = [phase EXCEPT ![r] = "open"]
  /\ UNCHANGED <<pot, due>>

\* A stake is due back to its owner until the round is decided.
Stake(r, u) ==
  /\ phase[r] = "open"
  /\ due[r][u] = 0
  /\ due'[r][u] >= 0
  /\ due' = [due EXCEPT ![r][u] = due'[r][u]]
  /\ pot' = [pot EXCEPT ![r] = @ + due'[r][u]]
  /\ UNCHANGED phase

\* A void round returns every stake whole.
Refund(r) ==
  /\ phase[r] = "open"
  /\ phase' = [phase EXCEPT ![r] = "decided"]
  /\ UNCHANGED <<pot, due>>

\* A decided round gives up a fee and grants at most what is left; whoever had
\* no stake in it gets nothing.
Award(r) ==
  /\ phase[r] = "open"
  /\ phase' = [phase EXCEPT ![r] = "decided"]
  /\ pot'[r] <= pot[r]
  /\ pot' = [pot EXCEPT ![r] = pot'[r]]
  /\ \A u \in Users : due'[r][u] >= 0 /\ (due[r][u] = 0 => due'[r][u] = 0)
  /\ Sum(due'[r], NumUsers) <= pot'[r]
  /\ due' = [due EXCEPT ![r] = due'[r]]

\* A user draws everything due from some decided rounds, and only once.
Draw(u) ==
  /\ \A r \in Rounds :
       due'[r] = [due[r] EXCEPT ![u] = due'[r][u]]
  /\ \A r \in Rounds :
       \/ due'[r][u] = due[r][u]
       \/ due'[r][u] = 0 /\ phase[r] = "decided"
  /\ pot' = [r \in Rounds |-> pot[r] - (due[r][u] - due'[r][u])]
  /\ UNCHANGED phase

\* What a decided round grants may shrink, never grow, and a round or a claim
\* may lapse: the money stays where it is.
Shrink ==
  /\ \A r \in Rounds, u \in Users :
       /\ 0 <= due'[r][u] /\ due'[r][u] <= due[r][u]
       /\ phase'[r] = "open" => due'[r][u] \in {0, due[r][u]}
  /\ \A r \in Rounds : phase'[r] = phase[r] \/ phase'[r] = "gone"
  /\ UNCHANGED pot

EscrowNext ==
  \/ \E r \in Rounds : Open(r) \/ Refund(r) \/ Award(r)
  \/ \E r \in Rounds, u \in Users : Stake(r, u)
  \/ \E u \in Users : Draw(u)
  \/ Shrink

EscrowSpec == EscrowInit /\ [][EscrowNext]_escrowVars

=============================================================================
