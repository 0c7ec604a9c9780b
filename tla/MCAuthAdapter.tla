----------------------------- MODULE MCAuthAdapter -----------------------------
EXTENDS AuthAdapter, TLC

Symmetry == Permutations(Checks)

MCMethodAuth ==
  [report |-> [policy |-> "required", permission |-> "read", recaptcha |-> TRUE],
   play |-> NoAuth, stray |-> NoAuth]

MCServiceAuth ==
  [m \in {"report", "play", "stray"} |->
     IF m = "stray" THEN NoAuth
     ELSE [policy |-> "optional", permission |-> "CLIENT", recaptcha |-> FALSE]]
==============================================================================
