----------------------------- MODULE MCLineFormat -----------------------------
(***************************************************************************)
(* An instance of LineFormat for TLC with buffers of 2, 4 and 6 characters *)
(* instead of 32, 64 and 256: every global format string of up to five     *)
(* characters over two modules, and texts that fill, exceed or leave empty *)
(* each of the buffers.                                                    *)
(***************************************************************************)
EXTENDS LineFormat, SequencesExt

MCModules == {"V", "B"}
MCCharacters == {"%", "-", ".", "V", "B", "L", "X", "a", "b", "1", "2", "3", "4"}
MCTokenIds == {"L"}
MCFormats == BoundedSeq({"%", "V", "B", "-"}, 5) \cup
             {<<"%", "V", "%", "B", "%", "V">>, <<"-", "%", "V", "-", "%", "B">>,
              <<"%", "V", "%", "V", "-", "-">>, <<"-", "-", "-", "-", "-", "-", "-">>}
MCModuleFormats == {<<"%", "L">>, <<"a", "%", "L", "%", "%">>, <<"%", "L", "%", "L", "b">>,
                    <<"%", "X">>}
MCTexts == {<<>>, <<"1">>, <<"2", "3", "4">>}

FewFormats == {<<"%", "V", "-", "%", "B">>}
=============================================================================
