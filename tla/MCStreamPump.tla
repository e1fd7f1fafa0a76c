---------------------------- MODULE MCStreamPump ----------------------------
(***************************************************************************)
(* Two blocks, a word of two and a word of three characters that share     *)
(* characters, texts of up to two characters.                            *)
(***************************************************************************)
EXTENDS StreamPump

MCBlocks == 0 .. 1
MCStops == << <<"a", "b", "a">>, <<"b", "b">> >>
MCTexts == {<<>>, <<"a">>, <<"b">>, <<"b", "a">>}
=============================================================================
