--------------------------- MODULE MCEchoPrediction ---------------------------
(***************************************************************************)
(* Model checking of EchoPrediction: the batches and the remote side's     *)
(* writes that the configurations choose from.                             *)
(***************************************************************************)
EXTENDS EchoPrediction

\* One printable key, a key without an echo, two printable keys at once.
QuietBatches == {<<"a">>, <<"ctrl">>, <<"a", "b">>}
PrintableBatches == {<<"a">>, <<"b">>}

MixedTalk == {<<"x">>, <<"nl">>, <<"bs">>, <<"tab">>, <<"mb1", "mb2">>,
              <<"on1", "on2">>, <<"off1", "off2">>,
              <<"off1", "off2", "on1", "on2">>}
NoTalk == {}
=============================================================================
