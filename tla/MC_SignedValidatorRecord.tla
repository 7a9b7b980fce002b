---------------------- MODULE MC_SignedValidatorRecord ----------------------
EXTENDS SignedValidatorRecord, TLC

\* Two address records with the same bytes split into segments differently,
\* so that one verifies under the signature of the other.
MCPayloads == { << <<1>>, <<2>> >>, << <<1, 2>> >> }

KeySymmetry == Permutations(HonestKeys)
=============================================================================
