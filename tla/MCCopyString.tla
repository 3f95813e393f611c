---------------------------- MODULE MCCopyString ----------------------------
(* TLC instance of CopyString: characters of one, two and three bytes.      *)
EXTENDS CopyString, SequencesExt

MCCharacter == {<<97>>, <<98>>, <<195, 169>>, <<226, 130, 172>>}
MCStrings == BoundedSeq(MCCharacter, 3)
=============================================================================
