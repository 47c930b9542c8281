------------------------------ MODULE MCJobRun ------------------------------
(* Two credentials, so that one can fail after another; two threads; a       *)
(* pre-step and a post-step; a required message and an output of its own.    *)
EXTENDS JobRun

CONSTANTS login, gh, t1, t2, message_md, report

MCCred == {login, gh}
MCThread == {t1, t2}
MCOutputs == <<message_md, report>>

=============================================================================
