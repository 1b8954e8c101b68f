------------------------------ MODULE BrokerClaims ------------------------------
(***************************************************************************)
(* A statement the documentation makes about the broker that the code does *)
(* not keep.  It is checked alone, by a run that expects TLC to find a     *)
(* behaviour of the code that breaks it.                                   *)
(***************************************************************************)
EXTENDS BrokerPipeline

\* docs/sip-wire-spec-v0.1.md, section 8 rule 8: the policy engine denies a
\* delegation whose expiry has passed.  Only the validator looks at it.
ExpiryEnforcedByPolicy ==
  [][\A w \in Workers :
       stage[w] = "matched" /\ stage'[w] = "allowed" /\ Delegated(envelope[w])
         => NotExpired(envelope[w].prov, clock)]_vars
================================================================================
