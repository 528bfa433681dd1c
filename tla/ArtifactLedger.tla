--------------------------- MODULE ArtifactLedger ---------------------------
(***************************************************************************)
(* What publishing an artifact is meant to be: an append-only ledger of    *)
(* manifests, each newer than those before it at its address; a frozen URL *)
(* (one per blob) that belongs for good to the address that first named    *)
(* the blob; and withdrawals, which only the author makes and which are    *)
(* never undone.                                                           *)
(***************************************************************************)
EXTENDS Integers

CONSTANTS Manifests, Blobs, Unowned

VARIABLES published, owner, withdrawn

vars == <<published, owner, withdrawn>>

Address(m) == <<m.pubkey, m.d>>

Init ==
    /\ published = {}
    /\ owner = [b \in Blobs |-> Unowned]
    /\ withdrawn = {}

Publish(m) ==
    /\ \A n \in published : Address(n) = Address(m) => n.created_at < m.created_at
    /\ published' = published \cup {m}
    /\ owner' = [owner EXCEPT ![m.blob] = IF @ = Unowned THEN Address(m) ELSE @]
    /\ UNCHANGED withdrawn

\* One author withdraws manifests of its own, published or still to come.
Withdraw(author) ==
    /\ withdrawn \subseteq withdrawn'
    /\ \A m \in withdrawn' \ withdrawn : m.pubkey = author
    /\ UNCHANGED <<published, owner>>

Next ==
    \/ \E m \in Manifests : Publish(m)
    \/ \E m \in Manifests : Withdraw(m.pubkey)

Spec == Init /\ [][Next]_vars
=============================================================================
