----------------------------- MODULE MCConfigLoad -----------------------------
(***************************************************************************)
(* An instance of ConfigLoad for TLC: every user file of one line of up to *)
(* five characters, with two options, and a few files of two lines; one    *)
(* option takes any setting, the other only "1".                           *)
(***************************************************************************)
EXTENDS ConfigLoad
LOCAL INSTANCE SequencesExt

MCKeys == {<<"k", "k">>, <<"n">>}
MCMatches(key, v) == key = <<"k", "k">> \/ v = <<"1">>

Chars == {"k", "n", "=", "1", "#", " "}
ShortLines == BoundedSeq(Chars, 5)

Blanks == <<" ", "\t">>
Pair(a, b) == <<a, b>>
TwoLines ==
  {Pair(a, b) : a, b \in {<<"k", "k", "=", "1">>, <<"k", "k", " ", "=", "\t", "n", " ", "#", "1">>,
                          <<"n", "=", "1", "=", "1">>, Blanks,
                          <<"\t", "#", "k", "=">>, <<"n", "=", "1">>}}

MCUserFiles == {<<l>> : l \in ShortLines} \cup TwoLines \cup {<<>>, Absent, Unreadable}
MCArgFiles == {NotGiven, Absent, Unreadable, <<>>, <<<<"k", "k", "=", "n">>>>}
MCSystemFiles == {Absent, <<<<"n", "=", "1">>, <<"k", "k", "=", "k">>>>}

\* Nothing, or something that a setting could be made of.
MCBeyond == {<<>>, <<"!">>}

\* For the run that looks for a disagreement.
FewUserFiles == {Absent, <<<<"k", "k", "=", "1">>>>}
=============================================================================
