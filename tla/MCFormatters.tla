----------------------------- MODULE MCFormatters -----------------------------
(* Stripping of all texts of up to four characters and of all texts of up   *)
(* to four pieces: colours with and without parameters, sequences of other  *)
(* kinds, sequences cut short, plain characters.  Then messages of up to    *)
(* two pieces under every severity, several tables and templates; and texts *)
(* with and without a newline at their end around the colours and scopes.   *)
EXTENDS Formatters, SequencesExt

Item(name, arg) == [name |-> name, arg |-> arg]
Plain(name) == Item(name, Absent)

Pieces == {<<"esc", "[", "m">>, <<"esc", "[", "d", "d", "m">>,
           <<"esc", "[", "d", "x">>, <<"esc", "[", "d">>, <<"esc", "x">>,
           <<"esc">>, <<"d", "m">>, <<"x">>}

Texts ==
    BoundedSeq({"esc", "[", "d", "m", "x", "nul"}, 4)
        \cup {a \o b \o c \o d : a, b, c, d \in Pieces \cup {<<>>}}

StripOnly ==
    {[sgr |-> NoSection, threshold |-> Error, auto_newline |-> TRUE,
      template |-> <<Plain("Message"), Item("SGR", "strip")>>,
      level |-> Unknown, header |-> <<"x">>, message |-> t,
      scopes |-> <<"x">>] : t \in Texts}

Entry(name, colour) == [name |-> name, colour |-> colour]

Tables ==
    {NoSection,
     <<Entry("INFO", <<"d">>), Entry("WARN", <<"d", "d">>),
       Entry("TRACE", <<"d", "x">>), Entry("FATAL", <<"d", "d", "d">>)>>,
     <<Entry("ERROR", <<"d">>), Entry("ERROR", <<>>), Entry("INFO", <<>>),
       Entry("INFO", <<"d">>), Entry("DEBUG", <<"d">>)>>,
     <<Entry("FATAL", <<"d">>), Entry("info", <<"d">>)>>}

Templates ==
    {<<Plain("Default"), Item("SGR", "strip")>>,
     <<Plain("SGR"), Plain("TimeStamp"), Plain("Message"),
       Item("SGR", "reset"), Plain("Scope"), Item("SGR", "strip"),
       Plain("Default")>>,
     <<Plain("Message"), Item("SGR", "strip"), Plain("SGR"),
       Plain("LineID"), Item("SGR", "strip")>>,
     <<Plain("Default"), Item("Scope", "sideways")>>,
     <<Item("SGR", "bold")>>}

Formatted ==
    [sgr : Tables, threshold : {1, Error}, auto_newline : {TRUE},
     template : Templates, level : {Unknown, 6} \cup Ordinals,
     header : {<<"x">>}, message : {a \o b : a, b \in Pieces \cup {<<>>}},
     scopes : {<<"x">>}]

Lines == {<<>>, <<"x">>, <<"nl">>, <<"x", "nl">>}

Newlines ==
    [sgr : {NoSection, <<>>}, threshold : {1}, auto_newline : BOOLEAN,
     template : {<<Plain("Default"), Item("SGR", "strip")>>,
                 <<Plain("Message"), Item("SGR", "reset"), Plain("Scope"),
                   Item("SGR", "strip"), Plain("Scope"), Item("SGR", ""),
                   Plain("Scope"), Plain("Default"), Item("SGR", "strip")>>},
     level : {1, Error}, header : Lines, message : Lines, scopes : Lines]

MCCases == StripOnly \cup Formatted \cup Newlines
==============================================================================
