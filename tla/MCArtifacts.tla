---------------------------- MODULE MCArtifacts -----------------------------
(* The instances of Artifacts that TLC checks, and the symmetry of its keys. *)
EXTENDS Artifacts, TLC

\* One tag, or a version together with its address.
OneOrBoth ==
    {{t} : t \in Tags} \cup {{<<"e", m>>, <<"a", Address(m)>>} : m \in Manifests}

Symmetry == Permutations(Pubkeys) \cup Permutations(Blobs) \cup Permutations(Slots)
=============================================================================
