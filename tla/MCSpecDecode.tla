----------------------------- MODULE MCSpecDecode -----------------------------
(* Instances of SpecDecode for TLC. *)
EXTENDS SpecDecode, FiniteSetsExt

\* A target whose choices depend on the tokens and on their places.
MCTargetNext(s) == (Len(s) + MapThenSumSet(LAMBDA i : i * s[i], DOMAIN s)) % 3
===============================================================================
