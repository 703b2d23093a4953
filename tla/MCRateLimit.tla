----------------------------- MODULE MCRateLimit -----------------------------
(* Two callers of a bucket pair: a provider's request limit over a global  *)
(* token limit, no limit at all, and a token limit of zero.                *)
EXTENDS RateLimit, TLC

NoLimit == [rpm |-> Unset, tpm |-> Unset]

MCConfigs ==
    {[global |-> [rpm |-> 2, tpm |-> 1], provider |-> [rpm |-> 1, tpm |-> Unset]],
     [global |-> NoLimit, provider |-> NoLimit],
     [global |-> NoLimit, provider |-> [rpm |-> 1, tpm |-> 0]]}

Callers == Permutations(Caller)
=============================================================================
