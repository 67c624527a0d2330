------------------------------- MODULE Header -------------------------------
(***************************************************************************)
(* The header of a message (pg-core/src/client/header.rs): a hidden policy *)
(* and an encapsulated key for each recipient, and the mode of the message.*)
(* An encapsulated key is the identity it was made for, and so is the user *)
(* secret key of a policy.                                                 *)
(***************************************************************************)
EXTENDS Identity

CONSTANT MaxHeader   \* MAX_HEADER_SIZE: a longer header is not read

ASSUME HeaderAssumption == MaxHeader \in Nat

Mode == [kind: {"InMemory", "Streaming"}, size: Nat]

\* Header::new derives an identity from each policy, which gives the keys, and
\* hides each policy, where it may panic.
NewHeaderPanics(policies) ==
  \E r \in DOMAIN policies : \E i \in DOMAIN policies[r].con : HintFails(policies[r].con[i])

\* Mutant: recipients of whom nothing is asked are left out.
NewHeader_Asked(policies) ==
  [recipients |->
     [r \in {r \in DOMAIN policies : policies[r].con # <<>>} |->
        [policy |-> HiddenPolicy(policies[r]), ct |-> Derived(policies[r])]],
   mode |-> [kind |-> "Streaming", size |-> 0]]
NewHeader(policies) ==
  [recipients |->
     [r \in DOMAIN policies |->
        [policy |-> HiddenPolicy(policies[r]), ct |-> Derived(policies[r])]],
   mode |-> [kind |-> "Streaming", size |-> 0]]

WithMode(h, mode) == [h EXCEPT !.mode = mode]

\* The length of a serialised header, counted in attributes and recipients.
HeaderLen(h) ==
  1 + Cardinality(UNION {{r} \X (0..Len(h.recipients[r].policy.con)) : r \in DOMAIN h.recipients})

\* Decapsulation with the key of policy usk fails, or gives some other key.
Decapsulates(h, ident, usk) == h.recipients[ident].ct = Derived(usk)
=============================================================================
