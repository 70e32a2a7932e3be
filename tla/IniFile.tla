------------------------------- MODULE IniFile -------------------------------
(***************************************************************************)
(* The configuration file: a table of sections that is edited, saved as    *)
(* text and loaded again.  Text is a sequence of characters, a file one of *)
(* lines.  Of the characters only those matter that the format uses; any   *)
(* other may stand for a word.                                             *)
(***************************************************************************)
EXTENDS Integers, SequencesExt

CONSTANTS Char,                    \* the characters
          Sections, Keys, Values,  \* text that callers pass
          Manual,                  \* files written by hand
          MaxEntries, MaxSections  \* bounds: of the table

Text == Seq(Char)
Blank == {" ", "\n", "\r"}

ASSUME CharAssumption == Blank \cup {"[", "]", "="} \subseteq Char
ASSUME TextAssumption == \A t \in Sections \cup Keys \cup Values : t \in Text
ASSUME ManualAssumption ==
  \A f \in Manual : f \in Seq(Text) /\ \A i \in DOMAIN f : \A j \in DOMAIN f[i] : f[i][j] # "\n"
ASSUME BoundAssumption == MaxEntries \in Nat /\ MaxSections \in Nat

VARIABLES m_sections,  \* section -> key -> value
          disk         \* the lines of the file

vars == <<m_sections, disk>>

Empty == [t \in {} |-> t]

-----------------------------------------------------------------------------
(* Text *)

trim(s) ==
  LET Solid(c) == c \notin Blank
      first == SelectInSeq(s, Solid)
  IN IF first = 0 THEN <<>> ELSE SubSeq(s, first, SelectLastInSeq(s, Solid))

\* Mutation: the last occurrence is taken.
FirstOfLast(c, s) == SelectLastInSeq(s, LAMBDA x : x = c)

\* find_first_of, 0 if there is none.
FirstOf(c, s) == SelectInSeq(s, LAMBDA x : x = c)

\* Without the separator, substr gives all of the line on both sides of it.
Before(c, s) == LET pos == FirstOf(c, s) IN trim(IF pos = 0 THEN s ELSE SubSeq(s, 1, pos - 1))

\* Mutation: the value is not trimmed.
BehindRaw(c, s) == SubSeq(s, FirstOf(c, s) + 1, Len(s))

Behind(c, s) == trim(SubSeq(s, FirstOf(c, s) + 1, Len(s)))

\* What getline() gives of one text, and of texts that std::endl ends.
Split(text) ==
  LET lines[i \in 0..Len(text)] ==
        IF i = 0 THEN << <<>> >>
        ELSE IF text[i] = "\n" THEN Append(lines[i-1], <<>>)
        ELSE [lines[i-1] EXCEPT ![Len(lines[i-1])] = Append(@, text[i])]
  IN lines[Len(text)]

Lines(texts) == FlattenSeq([i \in DOMAIN texts |-> Split(texts[i])])

-----------------------------------------------------------------------------
(* The table *)

With(f, x, e) == [y \in DOMAIN f \cup {x} |-> IF y = x THEN e ELSE f[y]]

\* operator[] of both maps makes what is not there.
Section(table, section) == IF section \in DOMAIN table THEN table[section] ELSE Empty
WithEntry(table, section, key, value) ==
  With(table, section, With(Section(table, section), key, value))

Without(f, x) == [y \in DOMAIN f \ {x} |-> f[y]]

\* The name of a section, if text begins like one, or an entry.
NamesSection(text) == text # <<>> /\ text[1] = "["
SectionName(text) == Before("]", Tail(text))

\* Mutation: a section that the file lists keeps its old entries.
LoadLineMerge(state, line) ==
  LET text == trim(line)
      in == SectionName(text) IN
  IF text = <<>> THEN state
  ELSE IF NamesSection(text)
  THEN [table |-> With(state.table, in, Section(state.table, in)), in |-> in]
  ELSE [table |-> WithEntry(state.table, state.in, Before("=", text), Behind("=", text)),
        in |-> state.in]

\* One line: blank, the name of a section, which starts empty, or an entry of
\* the section before it.
LoadLine(state, line) ==
  LET text == trim(line) IN
  IF text = <<>> THEN state
  ELSE IF NamesSection(text)
  THEN [table |-> With(state.table, SectionName(text), Empty), in |-> SectionName(text)]
  ELSE [table |-> WithEntry(state.table, state.in, Before("=", text), Behind("=", text)),
        in |-> state.in]

\* The table after every number of lines, and the section they are in.
AfterLines(table, lines) ==
  LET after[i \in 0..Len(lines)] ==
        IF i = 0 THEN [table |-> table, in |-> <<>>] ELSE LoadLine(after[i-1], lines[i])
  IN after

Loaded(table, lines) == AfterLines(table, lines)[Len(lines)].table

\* The order in which a map is gone through does not matter to load().
EntryLines(entries) ==
  LET keys == SetToSeq(DOMAIN entries) IN
  [i \in DOMAIN keys |-> keys[i] \o <<" ", "=", " ">> \o entries[keys[i]]]

\* str(), of which std::endl ends each text.
str(table) ==
  LET names == SetToSeq(DOMAIN table) IN
  FlattenSeq([i \in DOMAIN names |->
    << <<"[">> \o names[i] \o <<"]">> >> \o EntryLines(table[names[i]]) \o << <<>> >>])

-----------------------------------------------------------------------------
Entries == UNION {{s} \X DOMAIN m_sections[s] : s \in DOMAIN m_sections}
Bounded ==
  Cardinality(Entries') <= MaxEntries /\ Cardinality(DOMAIN m_sections') <= MaxSections

Init == m_sections = Empty /\ disk \in Manual

set(s, k, v) == m_sections' = WithEntry(m_sections, s, k, v) /\ Bounded /\ UNCHANGED disk

\* get() returns a reference, and makes an empty value if there is none.
get(s, k) ==
  /\ k \notin DOMAIN Section(m_sections, s)
  /\ set(s, k, <<>>)

at(s) ==
  /\ s \notin DOMAIN m_sections
  /\ m_sections' = With(m_sections, s, Empty) /\ Bounded /\ UNCHANGED disk

removeKey(s, k) ==
  /\ s \in DOMAIN m_sections
  /\ m_sections' = [m_sections EXCEPT ![s] = Without(@, k)] /\ UNCHANGED disk

remove(s) == m_sections' = Without(m_sections, s) /\ UNCHANGED disk

\* A new IniFile starts from here as well.
clear == m_sections' = Empty /\ UNCHANGED disk

\* str() written to the file.
save == disk' = Lines(str(m_sections)) /\ UNCHANGED m_sections

\* load() adds to the table; it does not clear it.  A file that cannot be opened
\* is loaded like an empty one, and load() returns false for every file.
load == m_sections' = Loaded(m_sections, disk) /\ Bounded /\ UNCHANGED disk

Edit == disk' \in Manual /\ UNCHANGED m_sections

Next ==
  \/ \E s \in Sections :
       at(s) \/ remove(s)
       \/ \E k \in Keys : get(s, k) \/ removeKey(s, k) \/ \E v \in Values : set(s, k, v)
  \/ clear \/ save \/ load \/ Edit

-----------------------------------------------------------------------------
\* Text that survives: on one line, no blanks around it; a section without "]",
\* a key without "=" that does not look like a section.
Plain(text) == trim(text) = text /\ FirstOf("\n", text) = 0
SavableSection(s) == Plain(s) /\ FirstOf("]", s) = 0
SavableKey(k) == Plain(k) /\ FirstOf("=", k) = 0 /\ ~NamesSection(k)

Savable(table) ==
  \A s \in DOMAIN table :
    /\ SavableSection(s)
    /\ \A k \in DOMAIN table[s] : SavableKey(k) /\ Plain(table[s][k])

\* A table comes back as it was from save() and a load() into a new IniFile if,
\* and only if, its text is savable; nothing checks that it is.
RoundTrip == Loaded(Empty, Lines(str(m_sections))) = m_sections <=> Savable(m_sections)

\* Loading a file once more, whatever was loaded or set before, gives what its
\* text says in the sections it lists, and takes nothing from the others.
ReloadIsExact ==
  LET table == Loaded(m_sections, disk)
      alone == Loaded(Empty, disk) IN
  /\ Loaded(table, disk) = table
  /\ \A s \in DOMAIN alone \ {<<>>} : table[s] = alone[s]
  /\ \A s \in DOMAIN m_sections \ DOMAIN alone : table[s] = m_sections[s]

\* What load() made of a file, or of a saved table, can be saved and loaded again
\* without a difference: parsing leaves only savable text.
LoadedIsSavable == Savable(Loaded(Empty, disk))
=============================================================================
