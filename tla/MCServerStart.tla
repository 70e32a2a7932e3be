---------------------------- MODULE MCServerStart ----------------------------
(* The constants TLC checks IniFile and ServerStart with: plain text, and   *)
(* text with each character of the format where it does harm.               *)
EXTENDS ServerStart

MCChar == STRING
MCSections == {Server, <<"a", "]">>}
MCKeys == {Port, <<"[", "b">>, <<"b", "=">>}
MCValues == {<<"\n", "[", "]">>}

\* No file; one with an entry before the first section, blanks and \r, and a port
\* that is 0 in 16 bits; one with lines without "]" and "=", the section and the key
\* named "", and a server without a port behind one that has it; a negative port,
\* behind a tab; and one beyond an int, 80 more than 2^18, and one beyond a long.
MCManual == {
  <<>>,
  << <<"b", "=", "=", "]">>, <<" ", "[", " ", "server", "]", "\r">>,
     <<"port", "=", " ", "6", "5", "5", "3", "6", "\r">> >>,
  << <<"[", "server">>, <<"port", "=", "8", "0">>, <<"[", "]">>, <<>>, <<"=", "b">>,
     <<"[", "server", "]">>, <<"b">> >>,
  << <<"[", "server", "]">>, <<"port", "=", "8", "0">>, <<"port", "=", "\t", "-", "1">> >>,
  << <<"[", "server", "]">>, <<"port", "=", "2", "6", "2", "2", "2", "4">> >>,
  << <<"[", "server", "]">>, <<"port", "=", "9", "9", "9", "9", "9", "9", "9">> >>
}
MCEphemeral == {40000}
MCNotBound == -1
=============================================================================
