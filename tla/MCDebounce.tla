----------------------------- MODULE MCDebounce -----------------------------
(* Debounce for TLC: model values for tasks and pull requests are given in  *)
(* the configuration.                                                       *)
EXTENDS Debounce

=============================================================================
