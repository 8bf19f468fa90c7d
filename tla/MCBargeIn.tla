------------------------------ MODULE MCBargeIn ------------------------------
(* One utterance that qualifies and one that is too short.                    *)
EXTENDS BargeIn

MCTexts == {"para_un_momento", "aha"}
MCQualifying == {"para_un_momento"}
MCReliable == {}

=============================================================================
