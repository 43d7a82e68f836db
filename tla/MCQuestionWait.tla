-------------------------- MODULE MCQuestionWait --------------------------
(* Small instances of QuestionWait for TLC.                                *)
EXTENDS QuestionWait, TLC
=============================================================================
