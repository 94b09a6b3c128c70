------------------------------ MODULE CreditOnce ------------------------------
(***************************************************************************)
(* What a durable idempotency key promises of an irreversible call         *)
(* (docs/adr/0019): an intention is recorded before the call, a key serves *)
(* one intention, an intention makes at most one call, and a used key is   *)
(* free again only when the evidence of its use has been deleted.  How     *)
(* callers, flights, crashes and the audit file bring this about is        *)
(* ResetQuota's business.                                                  *)
(***************************************************************************)
EXTENDS Naturals

CONSTANT Key

VARIABLES
  free,     \* keys with no recorded use
  intended, \* keys whose recorded intention may still make its call
  consumes, \* calls made with a key
  erased    \* how often the evidence of a key was deleted

vars == <<free, intended, consumes, erased>>

Init ==
  /\ free = Key
  /\ intended = {}
  /\ consumes = [k \in Key |-> 0]
  /\ erased = [k \in Key |-> 0]

Intend(k) ==
  /\ k \in free
  /\ free' = free \ {k}
  /\ intended' = intended \cup {k}
  /\ UNCHANGED <<consumes, erased>>

Spend(k) ==
  /\ k \in intended
  /\ intended' = intended \ {k}
  /\ consumes' = [consumes EXCEPT ![k] = @ + 1]
  /\ UNCHANGED <<free, erased>>

\* Intentions end without a call, or a key is used up without one.
GiveUp ==
  /\ free' \subseteq free
  /\ intended' \subseteq intended
  /\ UNCHANGED <<consumes, erased>>

\* The evidence of the keys in forgotten is deleted.
Forget(forgotten) ==
  /\ free \cap forgotten = {}
  /\ free' = free \cup forgotten
  /\ erased' = [k \in Key |-> IF k \in forgotten THEN erased[k] + 1 ELSE erased[k]]
  /\ UNCHANGED <<intended, consumes>>

Next ==
  \/ \E k \in Key : Intend(k) \/ Spend(k)
  \/ GiveUp
  \/ \E forgotten \in SUBSET Key : Forget(forgotten)

Spec == Init /\ [][Next]_vars

=============================================================================
