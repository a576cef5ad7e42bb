-------------------------- MODULE MCTemplateStore --------------------------
(* An instance of TemplateStore for TLC.                                   *)
EXTENDS TemplateStore

=============================================================================
