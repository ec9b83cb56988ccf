----------------------------- MODULE MCRunPrompt -----------------------------
(* One call of run_prompt with every choice of options. *)
EXTENDS RunPrompt
=============================================================================
